---- MODULE Spec2Model ----
(***************************************************************************)
(* Model of the playlist recommender: the engine SpotifyRecSysConstrained  *)
(* with its constraint pass and ranking (src/FPRECSYS/recsys.py), the      *)
(* keyword extractor (src/FPRECSYS/mood_extractor.py), and the LLM client  *)
(* and request handlers of the web app (src/RecSysLLM/app_enhanced.py).    *)
(*                                                                         *)
(* Specifications.  Spec: a built engine and its queries.  AdjustSpec:     *)
(* the constraint pass on arguments of the caller's choice.  RepeatSpec:   *)
(* the same ranking call made twice.  BuildSpec: the construction of an    *)
(* engine from a dataframe.  ExtractorSpec: the keyword extractor.         *)
(* LLMSpec: extract_adjustments and its fallback.  SessionSpec: the app's  *)
(* globals under the handlers upload_data, train_model, chat and           *)
(* clear_playlist, which run in separate threads and interleave between    *)
(* any two statements that touch a global.  ChatsSpec: a trained session   *)
(* under two chat requests, add_tracks, reset and clear_playlist.          *)
(*                                                                         *)
(* Numbers.  Feature values and deltas are floats in the source; here they *)
(* are fixed-point integers, Unit of them making 1.0.  Every value the     *)
(* model draws is a multiple of 0.02, so the products by 0.4 and by 0.5 of *)
(* the constraint engine are exact.  A cosine score c is held as the exact *)
(* fraction sgn(c)*c^2, a strictly increasing function of c on [-1, 1]     *)
(* that keeps -1, 0 and 1 fixed: order, sign, ties and the -1 sentinel of  *)
(* the ranker are those of the source.                                     *)
(*                                                                         *)
(* Indices.  Catalog positions are 0-based as in the source; the feature   *)
(* position feature_cols.index(f) is 1-based here (a TLA+ sequence).       *)
(***************************************************************************)
EXTENDS Integers, Sequences, FiniteSets, TLC

Unit == 6 * 100

\* ---------------------------------------------------------------- bounds
\* longest delta map given by a caller that is not the keyword extractor,
\* and the largest number of nonzero deltas of an extractor-shaped map
MaxKeys == 2
\* longest exclude_indices list
MaxExclude == 3
\* largest n_recommendations
MaxN == 3
\* longest playlist passed to get_playlist_mood_vector
MaxPlaylist == 3
\* most words in a message given to MoodExtractor.extract
MaxWords == 3
\* most feature columns a dataset lacks
MaxMissing == 2
\* most tokens in the text the remote model generates
MaxTokens == 4
\* most train-model requests of a session
MaxTrainings == 2
\* longest exclude_indices list of a call that is made twice
MaxRepeatExclude == 1
\* size of the playlist train_model draws, n_recommendations of the chat
RandomTracksN == 5
ChatN == 10
\* n_recommendations of the recommender tab's query
QueryN == 10

\* ------------------------------------------------------------- arithmetic
Abs(x) == IF x < 0 THEN -x ELSE x

Sign(x) == IF x > 0 THEN 1 ELSE IF x < 0 THEN -1 ELSE 0

Min(a, b) == IF a <= b THEN a ELSE b

RECURSIVE Gcd(_, _)
Gcd(a, b) == IF b = 0 THEN a ELSE Gcd(b, a % b)

\* x * (tenths / 10), the product of a fixed-point value by 0.4 or by 0.5
TimesTenths(x, tenths) == (x * tenths) \div 10

\* np.clip(x, lo, hi)
clip(x, lo, hi) == IF x < lo THEN lo ELSE IF x > hi THEN hi ELSE x

ClipLo == -3 * Unit

ClipHi == 3 * Unit

\* ----------------------------------------------------------- feature set
feature_cols ==
    << "acousticness", "danceability", "energy", "instrumentalness",
       "liveness", "loudness", "speechiness", "tempo", "valence" >>

FeatureIdx == DOMAIN feature_cols

FeatureNames == { feature_cols[k] : k \in FeatureIdx }

\* feature_cols.index(feature), 1-based
index(feature) == CHOOSE k \in FeatureIdx : feature_cols[k] = feature

\* self.feature_constraints: trigger -> direction -> ordered (dependent, mode)
feature_constraints ==
    [ acousticness |->
        [ positive |-> << <<"energy", "soft">>, <<"instrumentalness", "increase">> >>,
          negative |-> << <<"energy", "flexible">>, <<"instrumentalness", "flexible">> >> ],
      energy |->
        [ positive |-> << <<"valence", "increase">>, <<"tempo", "increase">> >>,
          negative |-> << <<"valence", "flexible">>, <<"tempo", "decrease">> >> ],
      valence |->
        [ positive |-> << <<"energy", "increase">>, <<"instrumentalness", "flexible">> >>,
          negative |-> << <<"energy", "decrease">>, <<"acousticness", "increase">> >> ] ]

Triggers == DOMAIN feature_constraints

\* ------------------------------------------------- the adjustments dict
\* A dict is a sequence of <<key, value>> pairs with distinct keys, in
\* insertion order (the order .items() iterates in).
Keys(adjustments) == { adjustments[k][1] : k \in DOMAIN adjustments }

\* adjustments[feature], for a key of the dict
Get(adjustments, feature) ==
    adjustments[CHOOSE k \in DOMAIN adjustments : adjustments[k][1] = feature][2]

\* ------------------------------------- adjust_mood_vector_with_constraints
\* the first loop without its clip
primary_adjustment_unclipped(adjusted, feature, delta) ==
    IF feature \in FeatureNames
    THEN [adjusted EXCEPT ![index(feature)] = @ + delta]
    ELSE adjusted

\* body of the first loop: adjusted[idx] = np.clip(adjusted[idx] + delta, -3, 3)
primary_adjustment(adjusted, feature, delta) ==
    IF feature \in FeatureNames
    THEN [adjusted EXCEPT ![index(feature)] = clip(@ + delta, ClipLo, ClipHi)]
    ELSE adjusted

\* first pass, from the k-th item of the dict on
RECURSIVE first_pass(_, _, _)
first_pass(adjusted, adjustments, k) ==
    IF k > Len(adjustments) THEN adjusted
    ELSE first_pass(primary_adjustment(adjusted, adjustments[k][1], adjustments[k][2]),
                    adjustments, k + 1)

\* the test of line 85 with its comparison inverted
explicitly_adjusted_or_absent(adjustments, conflicting_feature) ==
    \/ conflicting_feature \notin Keys(adjustments)
    \/ Get(adjustments, conflicting_feature) # 0

\* the test of line 85, made against the dict the caller passed
not_explicitly_adjusted(adjustments, conflicting_feature) ==
    \/ conflicting_feature \notin Keys(adjustments)
    \/ Get(adjustments, conflicting_feature) = 0

\* the three branches with delta in place of abs(delta)
constrained_value_signed(value, constraint_type, delta) ==
    CASE constraint_type = "soft" -> TimesTenths(value, 5)
      [] constraint_type = "increase" ->
            clip(value + TimesTenths(delta, 4), ClipLo, ClipHi)
      [] constraint_type = "decrease" ->
            clip(value - TimesTenths(delta, 4), ClipLo, ClipHi)
      [] OTHER -> value

\* the three branches on constraint_type
constrained_value(value, constraint_type, delta) ==
    CASE constraint_type = "soft" -> TimesTenths(value, 5)
      [] constraint_type = "increase" ->
            clip(value + TimesTenths(Abs(delta), 4), ClipLo, ClipHi)
      [] constraint_type = "decrease" ->
            clip(value - TimesTenths(Abs(delta), 4), ClipLo, ClipHi)
      [] OTHER -> value

\* body of the inner loop over constraints.items()
apply_constraint(adjusted, adjustments, delta, conflicting_feature, constraint_type) ==
    IF /\ not_explicitly_adjusted(adjustments, conflicting_feature)
       /\ conflicting_feature \in FeatureNames
    THEN [adjusted EXCEPT ![index(conflicting_feature)] =
              constrained_value(@, constraint_type, delta)]
    ELSE adjusted

\* inner loop, from the j-th item of the rule-set on
RECURSIVE apply_constraints(_, _, _, _, _)
apply_constraints(adjusted, adjustments, delta, constraints, j) ==
    IF j > Len(constraints) THEN adjusted
    ELSE apply_constraints(
             apply_constraint(adjusted, adjustments, delta,
                              constraints[j][1], constraints[j][2]),
             adjustments, delta, constraints, j + 1)

\* both rule-sets of the feature, whatever the sign of delta
direction_constraints_both(feature, delta) ==
    feature_constraints[feature].positive \o feature_constraints[feature].negative

\* direction = 'positive' if delta > 0 else 'negative'
direction_constraints(feature, delta) ==
    IF delta > 0 THEN feature_constraints[feature].positive
    ELSE feature_constraints[feature].negative

\* second pass, from the k-th item of the dict on
RECURSIVE second_pass(_, _, _)
second_pass(adjusted, adjustments, k) ==
    IF k > Len(adjustments) THEN adjusted
    ELSE LET feature == adjustments[k][1]
             delta == adjustments[k][2]
         IN  second_pass(
                 IF feature \in Triggers /\ delta # 0
                 THEN apply_constraints(adjusted, adjustments, delta,
                                        direction_constraints(feature, delta), 1)
                 ELSE adjusted,
                 adjustments, k + 1)

\* s[::-1]
Reversed(s) == [k \in DOMAIN s |-> s[Len(s) + 1 - k]]

\* the second pass taking the triggers in the order of the constraint table
\* (acousticness, energy, valence) instead of the order of the dict
TableOrder == << "acousticness", "energy", "valence" >>

RECURSIVE InTableOrder(_, _)
InTableOrder(adjustments, k) ==
    IF k > Len(TableOrder) THEN << >>
    ELSE (IF TableOrder[k] \in Keys(adjustments)
          THEN << << TableOrder[k], Get(adjustments, TableOrder[k]) >> >>
          ELSE << >>) \o InTableOrder(adjustments, k + 1)

adjust_in_table_order(base_vector, adjustments) ==
    LET others == SelectSeq(adjustments, LAMBDA kv : kv[1] \notin Triggers)
    IN  second_pass(first_pass(base_vector, adjustments, 1),
                    InTableOrder(adjustments, 1) \o others, 1)

adjust_mood_vector_with_constraints(base_vector, adjustments) ==
    second_pass(first_pass(base_vector, adjustments, 1), adjustments, 1)

\* what the caller of adjust holds after the call if adjusted were the
\* caller's array itself
adjust_outcome_aliased(base_vector, adjustments) ==
    LET returned == adjust_mood_vector_with_constraints(base_vector, adjustments)
    IN  [ returned    |-> returned,
          base_vector |-> returned,
          adjustments |-> adjustments ]

\* what the caller of adjust holds after the call: the returned vector and its
\* two arguments; adjusted is a copy of base_vector, the dict is only read
adjust_outcome(base_vector, adjustments) ==
    [ returned    |-> adjust_mood_vector_with_constraints(base_vector, adjustments),
      base_vector |-> base_vector,
      adjustments |-> adjustments ]

\* ------------------------------------------------------- cosine scores
Dot(a, b) ==
    LET RECURSIVE Acc(_)
        Acc(k) == IF k = 0 THEN 0 ELSE a[k] * b[k] + Acc(k - 1)
    IN  Acc(Len(a))

\* greatest common divisor of the components' magnitudes (0 for the zero vector)
RECURSIVE VecGcd(_, _)
VecGcd(v, k) == IF k = 0 THEN 0 ELSE Gcd(Abs(v[k]), VecGcd(v, k - 1))

\* sklearn's normalize(): the vector scaled to a fixed length, the zero vector
\* left as it is.  Fixed-point: scaled down by the gcd of its components,
\* which keeps the direction (and so every cosine) and keeps numbers small.
normalize(v) ==
    LET g == VecGcd(v, Len(v))
    IN  IF g = 0 THEN v ELSE [k \in DOMAIN v |-> v[k] \div g]

\* the fraction num/den in lowest terms, den > 0
Score(num, den) ==
    LET g == Gcd(Abs(num), den)
    IN  [num |-> num \div g, den |-> den \div g]

MinusOne == Score(0 - 1, 1)

Zero == Score(0, 1)

ScoreLess(s, t) ==
    LET g == Gcd(s.den, t.den)
    IN  s.num * (t.den \div g) < t.num * (s.den \div g)

\* the scores without their sign: the square of the cosine
cosine_similarity_unsigned(mood_vector, matrix) ==
    [ i \in DOMAIN matrix |->
        LET m == normalize(mood_vector)
            r == normalize(matrix[i])
            d == Dot(m, r)
        IN  IF Dot(m, m) = 0 \/ Dot(r, r) = 0 THEN Zero
            ELSE Score(d * d, Dot(m, m) * Dot(r, r)) ]

\* cosine_similarity([mood_vector], matrix)[0]: one score per catalog row,
\* 0 where the row or the mood vector is the zero vector
cosine_similarity(mood_vector, matrix) ==
    [ i \in DOMAIN matrix |->
        LET m == normalize(mood_vector)
            r == normalize(matrix[i])
            d == Dot(m, r)
        IN  IF Dot(m, m) = 0 \/ Dot(r, r) = 0 THEN Zero
            ELSE Score(Sign(d) * d * d, Dot(m, m) * Dot(r, r)) ]

\* ------------------------------------------------ recommend_by_mood_vector
\* the exclusion loop from the k-th item of exclude_indices on.  A numpy
\* index idx < 0 addresses position len + idx, and raises IndexError when
\* that is below 0.
RECURSIVE exclusion_loop(_, _, _)
exclusion_loop(similarities, exclude_indices, k) ==
    IF k > Len(exclude_indices) THEN [raised |-> FALSE, similarities |-> similarities]
    ELSE LET idx == exclude_indices[k]
             len == Cardinality(DOMAIN similarities)
         IN  IF idx < len
             THEN IF idx >= 0
                  THEN exclusion_loop([similarities EXCEPT ![idx] = MinusOne],
                                      exclude_indices, k + 1)
                  ELSE IF len + idx >= 0
                  THEN exclusion_loop([similarities EXCEPT ![len + idx] = MinusOne],
                                      exclude_indices, k + 1)
                  ELSE [raised |-> TRUE, similarities |-> similarities]
             ELSE exclusion_loop(similarities, exclude_indices, k + 1)

\* np.argsort(similarities): the positions in ascending order of score.  The
\* default kind is not a stable sort: where positions have equal scores their
\* order is the build's, given here by the rank ties[i] of each position.
argsort_before(similarities, ties, i, j) ==
    \/ ScoreLess(similarities[i], similarities[j])
    \/ /\ similarities[i] = similarities[j]
       /\ ties[i] <= ties[j]

RECURSIVE argsort_rest(_, _, _)
argsort_rest(similarities, ties, remaining) ==
    IF remaining = {} THEN << >>
    ELSE LET i == CHOOSE i \in remaining :
                      \A j \in remaining : argsort_before(similarities, ties, i, j)
         IN  << i >> \o argsort_rest(similarities, ties, remaining \ {i})

argsort(similarities, ties) ==
    argsort_rest(similarities, ties, DOMAIN similarities)

\* s[:n], for n >= 0
Prefix(s, n) == SubSeq(s, 1, Min(n, Len(s)))

\* the top of the ascending order: the [::-1] left out
top_indices_ascending(similarities, ties, n_recommendations) ==
    Prefix(argsort(similarities, ties), n_recommendations)

\* np.argsort(similarities)[::-1][:n_recommendations]
top_indices(similarities, ties, n_recommendations) ==
    Prefix(Reversed(argsort(similarities, ties)), n_recommendations)

\* [(int(idx), float(similarities[idx])) for idx in top if similarities[idx] > 0]
RECURSIVE positive_entries(_, _, _)
positive_entries(similarities, top, k) ==
    IF k > Len(top) THEN << >>
    ELSE (IF ScoreLess(Zero, similarities[top[k]])
          THEN << << top[k], similarities[top[k]] >> >>
          ELSE << >>) \o positive_entries(similarities, top, k + 1)

\* a tie order that turns round at every second call
ties_of_call_alternating(ties, call) ==
    IF call % 2 = 0
    THEN [i \in DOMAIN ties |-> Cardinality(DOMAIN ties) - 1 - ties[i]]
    ELSE ties

\* np.argsort runs one fixed algorithm: the order it gives to equal scores
\* depends on the array alone, so it is the build's at every call
ties_of_call(ties, call) == ties

\* the call's outcome: raised, or the returned list of (index, score)
recommend_by_mood_vector(matrix, ties, mood_vector, n_recommendations, exclude_indices) ==
    LET excluded == exclusion_loop(cosine_similarity(mood_vector, matrix),
                                   exclude_indices, 1)
    IN  IF excluded.raised THEN [raised |-> TRUE, list |-> << >>]
        ELSE [raised |-> FALSE,
              list |-> positive_entries(
                           excluded.similarities,
                           top_indices(excluded.similarities, ties, n_recommendations),
                           1)]


\* ---------------------------------------------------------------- __init__
\* A dataframe is a record of its number of rows (len) and of its columns, a
\* function from the column names to columns; a column is a function from the
\* row positions 0 .. len-1 to cells.  A numeric cell is a float: a
\* fixed-point value, or NaN.
num(x) == [nan |-> FALSE, val |-> x]

nan == [nan |-> TRUE, val |-> 0]

\* Series.min() and Series.max(), which skip NaN
column_min(column) ==
    LET vals == { column[i].val : i \in { j \in DOMAIN column : ~column[j].nan } }
    IN  IF vals = {} THEN nan ELSE num(CHOOSE x \in vals : \A y \in vals : x <= y)

column_max(column) ==
    LET vals == { column[i].val : i \in { j \in DOMAIN column : ~column[j].nan } }
    IN  IF vals = {} THEN nan ELSE num(CHOOSE x \in vals : \A y \in vals : x >= y)

\* a - b of two floats
minus(a, b) == IF a.nan \/ b.nan THEN nan ELSE num(a.val - b.val)

\* a / b of two floats, a >= 0 and b >= 0: 0 / 0 is NaN, a / 0 is infinite only
\* for a > 0, which is not the case for a value minus the minimum when the
\* maximum is the minimum
divide(a, b) ==
    IF a.nan \/ b.nan \/ b.val = 0 THEN nan ELSE num((a.val * Unit) \div b.val)

\* (column - min) / (max - min)
min_max(column) ==
    LET lo == column_min(column)
        hi == column_max(column)
    IN  [i \in DOMAIN column |-> divide(minus(column[i], lo), minus(hi, lo))]

\* df[name] = column
assign(df, name, column) ==
    [ len     |-> df.len,
      columns |-> [c \in DOMAIN df.columns \cup { name } |->
                     IF c = name THEN column ELSE df.columns[c]] ]

_normalize_features(df) ==
    LET with_loudness ==
            IF "loudness" \in DOMAIN df.columns
            THEN assign(df, "loudness_norm", min_max(df.columns["loudness"]))
            ELSE df
    IN  IF "tempo" \in DOMAIN with_loudness.columns
        THEN assign(with_loudness, "tempo_norm", min_max(with_loudness.columns["tempo"]))
        ELSE with_loudness

\* the columns appended for feature_cols[1 .. k], by name
RECURSIVE features(_, _)
features(df, k) ==
    IF k = 0 THEN << >>
    ELSE LET col  == feature_cols[k]
             rest == features(df, k - 1)
         IN  IF col \in DOMAIN df.columns THEN Append(rest, col)
             ELSE IF col = "loudness" /\ "loudness_norm" \in DOMAIN df.columns
                  THEN Append(rest, "loudness_norm")
             ELSE IF col = "tempo" /\ "tempo_norm" \in DOMAIN df.columns
                  THEN Append(rest, "tempo_norm")
             ELSE rest

\* the row positions of a dataframe
row_positions(df) == 0 .. df.len - 1

\* np.column_stack(features), and np.array([]) when no column was appended
_build_feature_matrix(df) ==
    LET cols == features(df, Len(feature_cols))
    IN  IF cols = << >> THEN << >>
        ELSE [i \in row_positions(df) |->
                [j \in DOMAIN cols |-> df.columns[cols[j]][i]]]

\* floor of the square root
isqrt(v) == CHOOSE r \in 0 .. v : r * r <= v /\ v < (r + 1) * (r + 1)

RECURSIVE column_total(_, _, _)
column_total(matrix, j, i) ==
    IF i < 0 THEN 0 ELSE matrix[i][j].val + column_total(matrix, j, i - 1)

RECURSIVE deviation_gcd(_, _)
deviation_gcd(d, i) ==
    IF i < 0 THEN 0 ELSE Gcd(Abs(d[i]), deviation_gcd(d, i - 1))

RECURSIVE sum_of_squares(_, _)
sum_of_squares(u, i) ==
    IF i < 0 THEN 0 ELSE u[i] * u[i] + sum_of_squares(u, i - 1)

\* (x - mean) / std of a column, cut to hundredths; with n rows, deviations
\* d = n * x - sum and u = d / gcd(d), the square of the quotient is
\* n * u^2 / sum(u^2).  A column of variance 0 has scale 1 and gives 0.
standardize(matrix, j) ==
    LET n == Cardinality(DOMAIN matrix)
        d == [i \in DOMAIN matrix |-> n * matrix[i][j].val - column_total(matrix, j, n - 1)]
        g == deviation_gcd(d, n - 1)
        u == [i \in DOMAIN matrix |-> d[i] \div g]
        q == sum_of_squares(u, n - 1)
    IN  [i \in DOMAIN matrix |->
            IF g = 0 THEN 0
            ELSE Sign(u[i]) * isqrt((100 * 100 * n * u[i] * u[i]) \div q) * (Unit \div 100)]

\* StandardScaler().fit_transform(matrix): returns [raised, scaler, scaled];
\* raised is the ValueError for an array that is not 2-dimensional or holds NaN
fit_transform(matrix) ==
    IF \/ matrix = << >>
       \/ \E i \in DOMAIN matrix : \E j \in DOMAIN matrix[i] : matrix[i][j].nan
    THEN [raised |-> TRUE, scaler |-> << >>, scaled |-> << >>]
    ELSE LET n    == Cardinality(DOMAIN matrix)
             cols == DOMAIN matrix[0]
             z    == [j \in cols |-> standardize(matrix, j)]
         IN  [ raised |-> FALSE,
               scaler |-> [ n_samples_seen_ |-> n,
                            mean_ |-> [j \in cols |-> column_total(matrix, j, n - 1) \div n] ],
               scaled |-> [i \in DOMAIN matrix |-> [j \in cols |-> z[j][i]]] ]

\* the engine's fields after __init__(df), or raised
__init__(df) ==
    LET normalized == _normalize_features(df)
        matrix     == _build_feature_matrix(normalized)
        fitted     == fit_transform(matrix)
    IN  [ raised                |-> fitted.raised,
          df                    |-> normalized,
          feature_matrix        |-> matrix,
          scaler                |-> fitted.scaler,
          feature_matrix_scaled |-> fitted.scaled ]

\* ------------------------------------------------- get_playlist_mood_vector
\* is i an index numpy accepts for an axis of len entries
in_bounds(i, len) == 0 - len <= i /\ i < len

\* the position a valid index names: negative indices count from the end
wrap(i, len) == IF i < 0 THEN len + i ELSE i

\* feature_matrix_scaled[track_indices] with each distinct index taken once
take_distinct(matrix, track_indices) ==
    LET len   == Cardinality(DOMAIN matrix)
        first == { p \in DOMAIN track_indices :
                     \A q \in 1 .. p - 1 : track_indices[q] # track_indices[p] }
        pick[p \in 0 .. Len(track_indices)] ==
            IF p = 0 THEN << >>
            ELSE IF p \in first
                 THEN Append(pick[p - 1], matrix[wrap(track_indices[p], len)])
                 ELSE pick[p - 1]
    IN  pick[Len(track_indices)]

\* feature_matrix_scaled[track_indices]: one row per entry of the list
take(matrix, track_indices) ==
    LET len == Cardinality(DOMAIN matrix)
    IN  [p \in DOMAIN track_indices |-> matrix[wrap(track_indices[p], len)]]

RECURSIVE column_sum(_, _, _)
column_sum(rows, k, p) ==
    IF p = 0 THEN 0 ELSE rows[p][k] + column_sum(rows, k, p - 1)

\* rows.mean(axis=0); the catalogs hold multiples of Unit / 50, so the mean of
\* up to four rows is on the fixed-point grid
mean(rows) ==
    [k \in DOMAIN rows[1] |-> column_sum(rows, k, Len(rows)) \div Len(rows)]

\* np.ones(n)
ones(n) == [k \in 1 .. n |-> Unit]

\* np.zeros(n)
zeros(n) == [k \in 1 .. n |-> 0]

\* returns [raised, vector]; raised is numpy's IndexError
get_playlist_mood_vector(matrix, track_indices) ==
    LET len == Cardinality(DOMAIN matrix)
    IN  IF track_indices = << >>
        THEN [raised |-> FALSE, vector |-> zeros(Len(feature_cols))]
        ELSE IF \E p \in DOMAIN track_indices : ~in_bounds(track_indices[p], len)
             THEN [raised |-> TRUE, vector |-> << >>]
             ELSE [raised |-> FALSE, vector |-> mean(take(matrix, track_indices))]

\* ------------------------------------------------------------ get_track_info
\* row.get(name, default) for the row at a position
row_get(df, position, name, default) ==
    IF name \in DOMAIN df.columns THEN df.columns[name][position] ELSE default

\* returns [index, raised, info]; raised is the IndexError of df.iloc[index]
get_track_info(df, index_) ==
    IF ~in_bounds(index_, df.len)
    THEN [index |-> index_, raised |-> TRUE, info |-> << >>]
    ELSE LET position == wrap(index_, df.len)
         IN  [ index  |-> index_,
               raised |-> FALSE,
               info   |-> [ name   |-> row_get(df, position, "track_name", "Unknown"),
                            artist |-> row_get(df, position, "artist_name", "Unknown"),
                            genre  |-> row_get(df, position, "genre", "Unknown"),
                            popularity |-> row_get(df, position, "popularity", 0),
                            index  |-> index_ ] ]

\* ------------------------------------------------------------ the Flask app
\* get_track_info of the app's engine: a dict of 'Unknown' for an index from
\* len on, else the row of df.iloc[index]; raised is the IndexError of iloc
\* for an index below -len or the ValueError of int() for a popularity of NaN
app_get_track_info(df, index_) ==
    IF index_ >= df.len THEN [raised |-> FALSE, index |-> index_, name |-> "Unknown"]
    ELSE IF ~in_bounds(index_, df.len)
    THEN [raised |-> TRUE, index |-> index_, name |-> "Unknown"]
    ELSE LET position   == wrap(index_, df.len)
             popularity == row_get(df, position, "popularity", num(0))
         IN  [ raised |-> popularity.nan,
               index  |-> index_,
               name   |-> row_get(df, position, "track_name", "Unknown") ]

features_0_1 ==
    { "acousticness", "danceability", "energy", "instrumentalness", "liveness",
      "speechiness", "valence" }

\* Series.clip(lo, hi)
clip_column(column, lo, hi) ==
    [i \in DOMAIN column |->
        IF column[i].nan THEN nan ELSE num(clip(column[i].val, lo, hi))]

\* DataCleaner.validate_and_clean: the datasets of the model have no repeated
\* row, no missing cell and no repeated track name, so every row is kept; the
\* values are clipped to their ranges
validate_and_clean(df) ==
    [ len     |-> df.len,
      columns |-> [c \in DOMAIN df.columns |->
                     IF c \in features_0_1 THEN clip_column(df.columns[c], 0, Unit)
                     ELSE IF c = "tempo" THEN clip_column(df.columns[c], 0, 300 * Unit)
                     ELSE df.columns[c]] ]

\* the lists np.random.choice(len, min(n, len), replace=False) can return
get_random_tracks(len, n) ==
    { t \in [1 .. Min(n, len) -> 0 .. len - 1] : \A j, k \in DOMAIN t : t[j] = t[k] => j = k }

\* list(excluded_tracks): small non-negative integers hash to themselves, the
\* list is ascending
RECURSIVE list(_)
list(set) ==
    IF set = {} THEN << >>
    ELSE LET least == CHOOSE x \in set : \A y \in set : x <= y
         IN  << least >> \o list(set \ { least })

\* ------------------------------------------------------------ the inputs
\* a vector written in hundredths, in fixed-point units
Vec(hundredths) == [k \in FeatureIdx |-> hundredths[k] * (Unit \div 100)]

ZeroVector == Vec(<< 0, 0, 0, 0, 0, 0, 0, 0, 0 >>)

\* Standardized matrices (columns of mean 0 and of variance 1, or constant 0),
\* rounded to the fixed-point grid.  CatalogA: an all-zero, an all-positive and
\* an all-negative row.  CatalogB: rows 0 and 1 at equal angles to many mood
\* vectors.  CatalogC: two opposite rows.
CatalogA ==
    [ i \in 0 .. 2 |->
        Vec([k \in FeatureIdx |-> CASE i = 0 -> 0 [] i = 1 -> 122 [] OTHER -> 0 - 122]) ]

CatalogB ==
    [ i \in 0 .. 2 |->
        CASE i = 0 -> Vec(<< 122, 0, 122, 0 - 122, 0, 122, 0, 0 - 122, 0 >>)
          [] i = 1 -> Vec(<< 0, 122, 0 - 122, 122, 0, 0, 122, 0, 0 - 122 >>)
          [] OTHER -> Vec(<< 0 - 122, 0 - 122, 0, 0, 0, 0 - 122, 0 - 122, 122, 122 >>) ]

CatalogC ==
    [ i \in 0 .. 1 |->
        CASE i = 0 -> Vec(<< 100, 0 - 100, 100, 100, 0, 0 - 100, 100, 0 - 100, 100 >>)
          [] OTHER -> Vec(<< 0 - 100, 100, 0 - 100, 0 - 100, 0, 100, 0 - 100, 100, 0 - 100 >>) ]

Catalogs == { CatalogA, CatalogB, CatalogC }

\* Datasets.  A table has the nine feature columns and track_name; a feature's
\* column holds its centre, or the centre plus or minus its spread, by a sign
\* per row and feature: loudness in dB around -10, tempo in BPM around 120, the
\* other features around 0.5.
centre(feature) ==
    CASE feature = "loudness" -> 0 - 10 * Unit
      [] feature = "tempo"    -> 120 * Unit
      [] OTHER                -> Unit \div 2

spread(feature) ==
    CASE feature = "loudness" -> 5 * Unit
      [] feature = "tempo"    -> 30 * Unit
      [] OTHER                -> 2 * (Unit \div 5)

Table(signs) ==
    [ len     |-> Cardinality(DOMAIN signs),
      columns |-> [c \in FeatureNames \cup { "track_name" } |->
                     IF c = "track_name"
                     THEN [i \in DOMAIN signs |-> << "track", i >>]
                     ELSE [i \in DOMAIN signs |->
                             num(centre(c) + signs[i][index(c)] * spread(c))]] ]

Signs(matrix) == [i \in DOMAIN matrix |-> [k \in FeatureIdx |-> Sign(matrix[i][k])]]

\* the tables that standardize to CatalogA, CatalogB and CatalogC
TableA == Table(Signs(CatalogA))

TableB == Table(Signs(CatalogB))

TableC == Table(Signs(CatalogC))

TrainingSets == { TableA, TableB, TableC }

\* two rows of the same loudness
TableFlat ==
    Table([i \in 0 .. 1 |->
             [k \in FeatureIdx |->
                IF feature_cols[k] = "loudness" THEN 0 ELSE IF i = 0 THEN 1 ELSE 0 - 1]])

\* a single row
TableOne == Table([i \in 0 .. 0 |-> [k \in FeatureIdx |-> 0]])

Tables == TrainingSets \cup { TableFlat, TableOne }

\* a loudness_norm column the dataset brings itself
own_loudness_norm(df) == [i \in row_positions(df) |-> num((i + 1) * (Unit \div 4))]

\* the dataframe without some columns
without(df, missing) ==
    [ len     |-> df.len,
      columns |-> [c \in DOMAIN df.columns \ missing |-> df.columns[c]] ]

MissingSets == { m \in SUBSET FeatureNames : Cardinality(m) <= MaxMissing }

\* datasets given to __init__: a table, with or without a loudness_norm column
\* of its own, without up to MaxMissing of the feature columns
Datasets ==
    { without(IF own THEN assign(t, "loudness_norm", own_loudness_norm(t)) ELSE t, m) :
        t \in Tables, m \in MissingSets, own \in BOOLEAN }

\* the tie orders an argsort build can have over a catalog's positions
TieRanks(matrix) ==
    { t \in [DOMAIN matrix -> DOMAIN matrix] : \A i, j \in DOMAIN matrix : t[i] = t[j] => i = j }

\* base vectors: the empty playlist's, one inside [-3, 3] that the deltas push
\* to the clip bounds, one with components outside [-3, 3]
BaseVectors ==
    { ZeroVector,
      Vec(<< 100, 0 - 50, 290, 0 - 290, 20, 0, 40, 300, 0 - 280 >>),
      Vec(<< 500, 0 - 400, 400, 350, 0, 320, 0 - 60, 0 - 350, 320 >>) }

MoodVectors ==
    { ZeroVector,
      Vec(<< 100, 100, 0, 0, 0, 0, 0, 0, 0 >>),
      Vec(<< 100, 0 - 50, 300, 0 - 300, 0, 0, 50, 300, 0 - 300 >>),
      Vec(<< 50, 50, 50, 100, 0, 50, 50, 0, 50 >>) }

\* deltas: -0.7, 0 and +0.5
DeltaVals == { 0 - 7 * (Unit \div 10), 0, 5 * (Unit \div 10) }

\* keys of a caller-built map: the triggers, their dependents, a feature no
\* rule names, and a key that is no feature
DeltaKeys ==
    { "acousticness", "energy", "valence", "instrumentalness", "tempo",
      "danceability", "mood" }

\* maps of at most MaxKeys entries, in every key order
PartialMaps ==
    UNION { { m \in [1 .. n -> DeltaKeys \X DeltaVals] :
                \A j, k \in 1 .. n : m[j][1] = m[k][1] => j = k } : n \in 0 .. MaxKeys }

\* key order of the dict MoodExtractor.extract starts from
ExtractKeys ==
    << "energy", "danceability", "valence", "acousticness", "instrumentalness",
       "speechiness", "liveness", "loudness", "tempo" >>

\* maps with all 9 features, at most MaxKeys of them nonzero
FullMaps ==
    { [k \in DOMAIN ExtractKeys |-> << ExtractKeys[k], v[k] >>] :
        v \in { w \in [DOMAIN ExtractKeys -> DeltaVals] :
                  Cardinality({ k \in DOMAIN ExtractKeys : w[k] # 0 }) <= MaxKeys } }

DeltaMaps == PartialMaps \cup FullMaps

\* exclude_indices: positions of the catalog, the position just past its end,
\* the negative index of the last row and the first one below -len
ExcludeVals(matrix) ==
    LET len == Cardinality(DOMAIN matrix)
    IN  (0 .. len) \cup { 0 - 1, 0 - (len + 1) }

ExcludeLists(matrix) ==
    UNION { [1 .. n -> ExcludeVals(matrix)] : n \in 0 .. MaxExclude }

\* ------------------------------------------------- MoodExtractor.extract
\* A text is a sequence of characters, each a one-character string.
Tenth == Unit \div 10

\* the keyword table in the order of the dict literal
mood_rules ==
    << [ keyword |-> << "e", "n", "e", "r", "g", "e", "t", "i", "c" >>,
         values  |-> << << "energy", 7 * Tenth >>, << "danceability", 6 * Tenth >>, << "valence", 4 * Tenth >>, << "tempo", 5 * Tenth >> >> ],
       [ keyword |-> << "s", "a", "d" >>,
         values  |-> << << "valence", 0 - 8 * Tenth >>, << "energy", 0 - 5 * Tenth >>, << "acousticness", 3 * Tenth >> >> ],
       [ keyword |-> << "a", "c", "o", "u", "s", "t", "i", "c" >>,
         values  |-> << << "acousticness", 7 * Tenth >>, << "energy", 0 - 3 * Tenth >>, << "instrumentalness", 2 * Tenth >> >> ],
       [ keyword |-> << "c", "h", "i", "l", "l" >>,
         values  |-> << << "energy", 0 - 6 * Tenth >>, << "tempo", 0 - 5 * Tenth >>, << "acousticness", 4 * Tenth >> >> ],
       [ keyword |-> << "d", "a", "n", "c", "e" >>,
         values  |-> << << "danceability", 8 * Tenth >>, << "energy", 7 * Tenth >>, << "tempo", 5 * Tenth >> >> ],
       [ keyword |-> << "e", "l", "e", "c", "t", "r", "o", "n", "i", "c" >>,
         values  |-> << << "acousticness", 0 - 8 * Tenth >>, << "energy", 6 * Tenth >>, << "instrumentalness", 5 * Tenth >> >> ],
       [ keyword |-> << "u", "p", "b", "e", "a", "t" >>,
         values  |-> << << "energy", 7 * Tenth >>, << "valence", 7 * Tenth >>, << "tempo", 4 * Tenth >> >> ],
       [ keyword |-> << "m", "e", "l", "a", "n", "c", "h", "o", "l", "i", "c" >>,
         values  |-> << << "valence", 0 - 7 * Tenth >>, << "energy", 0 - 4 * Tenth >>, << "acousticness", 5 * Tenth >> >> ],
       [ keyword |-> << "r", "e", "l", "a", "x", "i", "n", "g" >>,
         values  |-> << << "energy", 0 - 7 * Tenth >>, << "valence", 3 * Tenth >>, << "loudness", 0 - 4 * Tenth >> >> ],
       [ keyword |-> << "h", "a", "p", "p", "y" >>,
         values  |-> << << "valence", 8 * Tenth >>, << "energy", 5 * Tenth >>, << "danceability", 5 * Tenth >> >> ],
       [ keyword |-> << "s", "l", "o", "w" >>,
         values  |-> << << "tempo", 0 - 6 * Tenth >>, << "energy", 0 - 4 * Tenth >> >> ],
       [ keyword |-> << "f", "a", "s", "t" >>,
         values  |-> << << "tempo", 6 * Tenth >>, << "energy", 5 * Tenth >> >> ],
       [ keyword |-> << "l", "o", "u", "d" >>,
         values  |-> << << "loudness", 5 * Tenth >>, << "energy", 4 * Tenth >> >> ],
       [ keyword |-> << "q", "u", "i", "e", "t" >>,
         values  |-> << << "loudness", 0 - 6 * Tenth >>, << "energy", 0 - 3 * Tenth >> >> ],
       [ keyword |-> << "i", "n", "s", "t", "r", "u", "m", "e", "n", "t", "a", "l" >>,
         values  |-> << << "instrumentalness", 8 * Tenth >>, << "speechiness", 0 - 5 * Tenth >> >> ],
       [ keyword |-> << "v", "o", "c", "a", "l" >>,
         values  |-> << << "instrumentalness", 0 - 6 * Tenth >>, << "speechiness", 4 * Tenth >> >> ] >>

uppercase ==
    << "A", "B", "C", "D", "E", "F", "G", "H", "I", "J", "K", "L", "M",
       "N", "O", "P", "Q", "R", "S", "T", "U", "V", "W", "X", "Y", "Z" >>

lowercase ==
    << "a", "b", "c", "d", "e", "f", "g", "h", "i", "j", "k", "l", "m",
       "n", "o", "p", "q", "r", "s", "t", "u", "v", "w", "x", "y", "z" >>

\* str.lower() with the letters left as they are
lower_unchanged(user_message) == user_message

\* str.lower() over the letters A-Z
lower(user_message) ==
    [p \in DOMAIN user_message |->
        IF \E k \in DOMAIN uppercase : uppercase[k] = user_message[p]
        THEN lowercase[CHOOSE k \in DOMAIN uppercase : uppercase[k] = user_message[p]]
        ELSE user_message[p]]

\* keyword in msg
contains(msg, keyword) ==
    \E p \in 1 .. Len(msg) - Len(keyword) + 1 :
        SubSeq(msg, p, p + Len(keyword) - 1) = keyword

\* adjustments[key] = adjustments.get(key, 0) + value
set_item_summing(adjustments, key, value) ==
    IF key \in Keys(adjustments)
    THEN [k \in DOMAIN adjustments |->
            IF adjustments[k][1] = key
            THEN << key, adjustments[k][2] + value >> ELSE adjustments[k]]
    ELSE Append(adjustments, << key, value >>)

\* adjustments[key] = value: a key the dict has keeps its place
set_item(adjustments, key, value) ==
    IF key \in Keys(adjustments)
    THEN [k \in DOMAIN adjustments |->
            IF adjustments[k][1] = key THEN << key, value >> ELSE adjustments[k]]
    ELSE Append(adjustments, << key, value >>)

\* adjustments.update(values), the entries of values from the j-th on
RECURSIVE update(_, _, _)
update(adjustments, values, j) ==
    IF j > Len(values) THEN adjustments
    ELSE update(set_item(adjustments, values[j][1], values[j][2]), values, j + 1)

\* the loop over mood_rules.items(), the rules from the k-th on
RECURSIVE rules_loop(_, _, _)
rules_loop(adjustments, msg, k) ==
    IF k > Len(mood_rules) THEN adjustments
    ELSE rules_loop(IF contains(msg, mood_rules[k].keyword)
                    THEN update(adjustments, mood_rules[k].values, 1)
                    ELSE adjustments,
                    msg, k + 1)

extract(user_message) ==
    rules_loop([k \in DOMAIN ExtractKeys |-> << ExtractKeys[k], 0 >>],
               lower(user_message), 1)

\* words of a message: keywords, keywords in capitals, a word a keyword is
\* inside of, the two halves of a keyword, a word without any keyword
Words ==
    { << "s", "a", "d" >>,
      << "S", "A", "D" >>,
      << "H", "a", "p", "p", "y" >>,
      << "e", "n", "e", "r", "g", "e", "t", "i", "c" >>,
      << "c", "r", "u", "s", "a", "d", "e" >>,
      << "j", "a", "z", "z" >>,
      << "s", "a" >>,
      << "d" >>,
      << "d", "a", "n", "c", "e" >>,
      << "r", "e", "l", "a", "x", "i", "n", "g" >> }

RECURSIVE join(_)
join(words) ==
    IF words = << >> THEN << >>
    ELSE IF Len(words) = 1 THEN words[1]
    ELSE words[1] \o << " " >> \o join(Tail(words))

\* messages of at most MaxWords words, a blank between two words
Texts == { join(w) : w \in UNION { [1 .. n -> Words] : n \in 0 .. MaxWords } }

\* ------------------------------------------------------------ HuggingFaceLLM
\* the keyword table of _fallback_extraction in the order of the dict literal
fallback_rules ==
    << [ keyword |-> << "e", "n", "e", "r", "g", "e", "t", "i", "c" >>,
         values  |-> << << "energy", 7 * Tenth >>, << "danceability", 6 * Tenth >>, << "valence", 4 * Tenth >>, << "tempo", 5 * Tenth >> >> ],
       [ keyword |-> << "s", "a", "d" >>,
         values  |-> << << "valence", 0 - 8 * Tenth >>, << "energy", 0 - 5 * Tenth >>, << "acousticness", 3 * Tenth >> >> ],
       [ keyword |-> << "a", "c", "o", "u", "s", "t", "i", "c" >>,
         values  |-> << << "acousticness", 7 * Tenth >>, << "energy", 0 - 3 * Tenth >>, << "instrumentalness", 2 * Tenth >> >> ],
       [ keyword |-> << "c", "h", "i", "l", "l" >>,
         values  |-> << << "energy", 0 - 6 * Tenth >>, << "tempo", 0 - 5 * Tenth >>, << "acousticness", 4 * Tenth >> >> ],
       [ keyword |-> << "d", "a", "n", "c", "e" >>,
         values  |-> << << "danceability", 8 * Tenth >>, << "energy", 7 * Tenth >>, << "tempo", 5 * Tenth >> >> ],
       [ keyword |-> << "e", "l", "e", "c", "t", "r", "o", "n", "i", "c" >>,
         values  |-> << << "acousticness", 0 - 8 * Tenth >>, << "energy", 6 * Tenth >>, << "instrumentalness", 5 * Tenth >> >> ],
       [ keyword |-> << "u", "p", "b", "e", "a", "t" >>,
         values  |-> << << "energy", 7 * Tenth >>, << "valence", 7 * Tenth >>, << "tempo", 4 * Tenth >> >> ],
       [ keyword |-> << "m", "e", "l", "a", "n", "c", "h", "o", "l", "i", "c" >>,
         values  |-> << << "valence", 0 - 7 * Tenth >>, << "energy", 0 - 4 * Tenth >>, << "acousticness", 5 * Tenth >> >> ],
       [ keyword |-> << "r", "e", "l", "a", "x", "i", "n", "g" >>,
         values  |-> << << "energy", 0 - 7 * Tenth >>, << "valence", 3 * Tenth >>, << "loudness", 0 - 4 * Tenth >> >> ],
       [ keyword |-> << "h", "a", "p", "p", "y" >>,
         values  |-> << << "valence", 8 * Tenth >>, << "energy", 5 * Tenth >>, << "danceability", 5 * Tenth >> >> ],
       [ keyword |-> << "s", "l", "o", "w" >>,
         values  |-> << << "tempo", 0 - 6 * Tenth >>, << "energy", 0 - 4 * Tenth >> >> ],
       [ keyword |-> << "f", "a", "s", "t" >>,
         values  |-> << << "tempo", 7 * Tenth >>, << "energy", 6 * Tenth >> >> ],
       [ keyword |-> << "q", "u", "i", "e", "t" >>,
         values  |-> << << "loudness", 0 - 7 * Tenth >>, << "valence", 2 * Tenth >> >> ],
       [ keyword |-> << "l", "o", "u", "d" >>,
         values  |-> << << "loudness", 6 * Tenth >>, << "energy", 5 * Tenth >> >> ] >>

\* the same statement in overwrite mode: adjustments[key] = val
accumulate_overwriting(adjustments, key, val) ==
    IF key \in Keys(adjustments)
    THEN [k \in DOMAIN adjustments |->
            IF adjustments[k][1] = key THEN << key, val >> ELSE adjustments[k]]
    ELSE Append(adjustments, << key, val >>)

\* adjustments[key] = adjustments.get(key, 0) + val
accumulate(adjustments, key, val) ==
    IF key \in Keys(adjustments)
    THEN [k \in DOMAIN adjustments |->
            IF adjustments[k][1] = key
            THEN << key, adjustments[k][2] + val >> ELSE adjustments[k]]
    ELSE Append(adjustments, << key, val >>)

\* the loop over values.items(), the entries from the j-th on
RECURSIVE accumulate_all(_, _, _)
accumulate_all(adjustments, values, j) ==
    IF j > Len(values) THEN adjustments
    ELSE accumulate_all(accumulate(adjustments, values[j][1], values[j][2]),
                        values, j + 1)

\* the loop over mood_rules.items(), the rules from the k-th on
RECURSIVE fallback_loop(_, _, _)
fallback_loop(adjustments, msg, k) ==
    IF k > Len(fallback_rules) THEN adjustments
    ELSE fallback_loop(IF contains(msg, fallback_rules[k].keyword)
                       THEN accumulate_all(adjustments, fallback_rules[k].values, 1)
                       ELSE adjustments,
                       msg, k + 1)

_fallback_extraction(user_message) ==
    LET summed == fallback_loop([k \in DOMAIN ExtractKeys |-> << ExtractKeys[k], 0 >>],
                                lower(user_message), 1)
    IN  [k \in DOMAIN summed |->
            << summed[k][1], clip(summed[k][2], 0 - Unit, Unit) >>]

\* The generated text is a sequence of tokens: an opening brace, a closing
\* brace, prose, a member other than feature_adjustments (with its comma), and
\* a member "feature_adjustments": value for three values.
\* A JSON value is a record of its kind and, for an object, its dict.
json_object(dict) == [kind |-> "object", dict |-> dict]

json_null == [kind |-> "null", dict |-> << >>]

\* the value of a feature_adjustments member
member_value(token) ==
    CASE token = "fa_full" ->
             json_object([k \in DOMAIN ExtractKeys |->
                            << ExtractKeys[k], IF k = 1 THEN 5 * Tenth ELSE 0 >>])
      [] token = "fa_partial" -> json_object(<< << "valence", 0 - 7 * Tenth >> >>)
      [] OTHER -> json_null

FeatureAdjustmentsTokens == { "fa_full", "fa_partial", "fa_null" }

MemberTokens == { "member" } \cup FeatureAdjustmentsTokens

Tokens == { "{", "}", "prose" } \cup MemberTokens

\* output_text.find('{'): 0-based, -1 when there is none
find_open(output_text) ==
    LET at == { p \in DOMAIN output_text : output_text[p] = "{" }
    IN  IF at = {} THEN 0 - 1 ELSE (CHOOSE p \in at : \A q \in at : p <= q) - 1

\* output_text.rfind('}'): 0-based, -1 when there is none
rfind_close(output_text) ==
    LET at == { p \in DOMAIN output_text : output_text[p] = "}" }
    IN  IF at = {} THEN 0 - 1 ELSE (CHOOSE p \in at : \A q \in at : p >= q) - 1

\* output_text[json_start:json_end] for 0 <= json_start < json_end
slice(output_text, json_start, json_end) == SubSeq(output_text, json_start + 1, json_end)

\* json.loads(json_str): returns [raised, members]; a string that is not one
\* object of members raises
json_loads(json_str) ==
    IF /\ Len(json_str) >= 2
       /\ json_str[1] = "{"
       /\ json_str[Len(json_str)] = "}"
       /\ \A p \in 2 .. Len(json_str) - 1 : json_str[p] \in MemberTokens
    THEN [raised |-> FALSE, members |-> SubSeq(json_str, 2, Len(json_str) - 1)]
    ELSE [raised |-> TRUE, members |-> << >>]

\* parsed.get('feature_adjustments', {}); of a repeated key the last counts
get_feature_adjustments(members) ==
    LET at == { p \in DOMAIN members : members[p] \in FeatureAdjustmentsTokens }
    IN  IF at = {} THEN json_object(<< >>)
        ELSE member_value(members[CHOOSE p \in at : \A q \in at : p >= q])

\* the answer of the remote service to requests.post: the call raised (timeout
\* or another request exception), a status other than 200, a 200 whose body is
\* no JSON, a 200 whose JSON has no generated text, a 200 with generated text
Responses ==
    { [kind |-> k, output_text |-> << >>] :
        k \in { "exception", "status_503", "body_not_json", "no_generated_text" } }
    \cup { [kind |-> "generated_text", output_text |-> t] :
             t \in UNION { [1 .. n -> Tokens] : n \in 0 .. MaxTokens } }

\* no request was made
NoResponse == [kind |-> "none", output_text |-> << >>]

\* extract_adjustments: the value returned; it has no path that raises
extract_adjustments(api_key, response_, user_message) ==
    IF api_key = "" THEN json_object(_fallback_extraction(user_message))
    ELSE IF response_.kind # "generated_text"
         THEN json_object(_fallback_extraction(user_message))
    ELSE LET json_start == find_open(response_.output_text)
             json_end   == rfind_close(response_.output_text) + 1
             parsed     == json_loads(slice(response_.output_text, json_start, json_end))
         IN  IF json_start >= 0 /\ json_end > json_start /\ ~parsed.raised
             THEN get_feature_adjustments(parsed.members)
             ELSE json_object(_fallback_extraction(user_message))

\* messages of the recommender tab's query: no keyword, a keyword that lowers
\* features, one that raises them, a keyword in capitals inside another word
QueryTexts ==
    { << "j", "a", "z", "z" >>,
      << "s", "a", "d" >>,
      << "e", "n", "e", "r", "g", "e", "t", "i", "c" >>,
      << "u", "n", "H", "A", "P", "P", "Y" >> }

\* messages to the chat: one keyword, and two keywords that set the same
\* feature
ChatTexts ==
    { << "s", "a", "d" >>,
      << "e", "n", "e", "r", "g", "e", "t", "i", "c", " ", "d", "a", "n", "c", "e" >> }

\* messages to extract_adjustments: those of the chat, one without a keyword,
\* one with a keyword in capitals inside another word, and one whose keywords
\* sum a feature below -1
FallbackTexts ==
    ChatTexts \cup
    { << "j", "a", "z", "z" >>,
      << "u", "n", "H", "A", "P", "P", "Y" >>,
      << "s", "a", "d", " ", "c", "h", "i", "l", "l" >> }

\* uploads of a session: a catalog of two rows and one of a single row
\* TableC with a popularity column whose cell in row 1 is empty
TableUnrated ==
    assign(TableC, "popularity",
           [i \in row_positions(TableC) |-> IF i = 1 THEN nan ELSE num(i)])

SessionDatasets == { TableC, TableOne, TableUnrated }

\* the lists of indices add-tracks requests bring: a track, another, and an
\* index no catalog of the model has
AddLists == { << 0 >>, << 1 >>, << 7 >> }

\* answers of the remote service in a session
SessionResponses ==
    { [kind |-> "exception", output_text |-> << >>],
      [kind |-> "generated_text", output_text |-> << "{", "fa_partial", "}" >>] }

\* track_indices: positions of the catalog, the position just past its end and
\* the negative index of the last row
TrackVals(matrix) ==
    LET len == Cardinality(DOMAIN matrix)
    IN  (0 .. len) \cup { 0 - 1 }

Playlists(matrix) ==
    UNION { [1 .. n -> TrackVals(matrix)] : n \in 0 .. MaxPlaylist }

\* ------------------------------------------------------------- the state
VARIABLES
    df,                     \* the engine's fields
    feature_matrix,
    scaler,
    feature_matrix_scaled,
    init_error,             \* __init__ raised
    argsort_ties,           \* tie order of the build's argsort
    op,                     \* the call whose outcome is held, or "idle"
    base_vector,            \* adjust: arguments and returned vector
    adjustments,
    adjusted,
    mood_vector,            \* recommend: arguments and outcome
    n_recommendations,
    exclude_indices,
    recommendations,
    raised,
    repeated,               \* recommend: outcome of the same call made again
    track_indices,          \* get_playlist_mood_vector: argument and outcome
    playlist_mood_vector,
    index_error,
    user_message,           \* MoodExtractor.extract: argument and returned dict
    extracted,
    arguments_after,        \* adjust: the caller's two arguments after the call
    track_info,             \* get_track_info: argument and outcome
    api_key,                \* HuggingFaceLLM: its key, the remote answer and
    response,               \* the value extract_adjustments returned
    llm_adjustments,
    df_raw,                 \* the app's globals besides recsys, whose fields
    llm,                    \* are the engine's fields above
    current_playlist,
    excluded_tracks,
    model_trained,
    train_pc,               \* the line a train_model request is at, or "idle"
    chat_pc,                \* the line a chat request is at, "idle" or "done"
    chat_status,            \* HTTP status of the chat's response
    formatted_recommendations,  \* the chat's list of formatted tracks
    train_status,           \* HTTP status of the train_model response
    train_changed,          \* history: the train_model request in flight has
                            \* changed the engine or a global
    recommended,            \* history: the tracks chats have returned since
                            \* the exclusion set was last reset
    requests,               \* number of train_model requests, and of those
                            \* that were answered 200
    version,                \* history: the training that wrote each global
    observed                \* history: the versions the chat has read

vars == << df, feature_matrix, scaler, init_error,
           feature_matrix_scaled, argsort_ties, op, base_vector, adjustments,
           adjusted, mood_vector, n_recommendations, exclude_indices,
           recommendations, raised, repeated, track_indices, playlist_mood_vector,
           index_error, user_message, extracted, arguments_after, track_info,
           api_key, response, llm_adjustments, df_raw, llm, current_playlist,
           excluded_tracks, model_trained, train_pc, chat_pc, chat_status,
           formatted_recommendations, train_status, train_changed, recommended,
           requests, version, observed >>

engine == << df, feature_matrix, scaler, feature_matrix_scaled, init_error,
            argsort_ties >>

adjust_call == << base_vector, adjustments, adjusted, arguments_after >>

recommend_call == << mood_vector, n_recommendations, exclude_indices,
                     recommendations, raised, repeated >>

mood_vector_call == << track_indices, playlist_mood_vector, index_error >>

extract_call == << user_message, extracted >>

track_info_call == << track_info >>

llm_call == << api_key, response, llm_adjustments >>

globals == << df_raw, llm, current_playlist, excluded_tracks, model_trained >>

train_request == << train_pc, train_status, train_changed >>

chat_request == << chat_pc, chat_status, formatted_recommendations >>


history == << recommended, requests, version, observed >>

session == << globals, train_request, chat_request, history >>

NoAdjustCall ==
    /\ base_vector = << >>
    /\ adjustments = << >>
    /\ adjusted = << >>
    /\ arguments_after = << >>

NoRecommendCall ==
    /\ mood_vector = << >>
    /\ n_recommendations = 0
    /\ exclude_indices = << >>
    /\ recommendations = << >>
    /\ raised = FALSE
    /\ repeated = << >>

NoMoodVectorCall ==
    /\ track_indices = << >>
    /\ playlist_mood_vector = << >>
    /\ index_error = FALSE

NoExtractCall ==
    /\ user_message = << >>
    /\ extracted = << >>

NoTrackInfoCall == track_info = << >>

NoLLMCall ==
    /\ api_key = ""
    /\ response = NoResponse
    /\ llm_adjustments = << >>

Unread == [llm |-> 0 - 1, recsys_at_460 |-> 0 - 1, current_playlist |-> 0 - 1,
           excluded_tracks |-> 0 - 1, recsys_at_464 |-> 0 - 1]

\* no chat has returned a track
NoneRecommended == [once |-> {}, twice |-> {}]

\* the history after a chat has returned the tracks: those an earlier chat
\* returned too are kept apart
Returning(tracks) ==
    [ once  |-> recommended.once \cup tracks,
      twice |-> recommended.twice \cup (recommended.once \cap tracks) ]

\* the module's globals as the import leaves them, no request in flight
NoSession ==
    /\ df_raw = << >>
    /\ llm = << >>
    /\ current_playlist = << >>
    /\ excluded_tracks = {}
    /\ model_trained = FALSE
    /\ train_pc = "idle"
    /\ chat_pc = "idle"
    /\ chat_status = 0
    /\ formatted_recommendations = << >>
    /\ train_status = 0
    /\ train_changed = FALSE
    /\ recommended = NoneRecommended
    /\ requests = [train_model |-> 0, answered_200 |-> 0]
    /\ version = [recsys |-> 0, llm |-> 0, current_playlist |-> 0, excluded_tracks |-> 0]
    /\ observed = Unread

\* an engine built by __init__, no call made yet
Init ==
    /\ \E dataset \in TrainingSets :
          LET self == __init__(dataset)
          IN  /\ init_error = self.raised
              /\ df = self.df
              /\ feature_matrix = self.feature_matrix
              /\ scaler = self.scaler
              /\ feature_matrix_scaled = self.feature_matrix_scaled
    /\ ~init_error
    /\ feature_matrix_scaled \in Catalogs
    /\ argsort_ties \in TieRanks(feature_matrix_scaled)
    /\ op = "idle"
    /\ NoAdjustCall
    /\ NoRecommendCall
    /\ NoMoodVectorCall
    /\ NoExtractCall
    /\ NoTrackInfoCall
    /\ NoLLMCall
    /\ NoSession

\* a call of adjust_mood_vector_with_constraints with arguments of the
\* caller's choice (AdjustSpec); QueryCall is the call the application makes
AdjustCall ==
    /\ op = "idle"
    /\ \E b \in BaseVectors, a \in DeltaMaps :
          LET out == adjust_outcome(b, a)
          IN  /\ base_vector' = b
              /\ adjustments' = a
              /\ adjusted' = out.returned
              /\ arguments_after' = << out.base_vector, out.adjustments >>
    /\ op' = "adjust"
    /\ UNCHANGED session
    /\ UNCHANGED << engine, recommend_call, mood_vector_call, extract_call,
                    track_info_call, llm_call >>

\* a call of recommend_by_mood_vector
RecommendCall ==
    /\ op = "idle"
    /\ \E m \in MoodVectors, n \in 0 .. MaxN,
          e \in ExcludeLists(feature_matrix_scaled) :
          LET out == recommend_by_mood_vector(feature_matrix_scaled, argsort_ties,
                                              m, n, e)
          IN  /\ mood_vector' = m
              /\ n_recommendations' = n
              /\ exclude_indices' = e
              /\ recommendations' = out.list
              /\ raised' = out.raised
              /\ repeated' = << >>
    /\ op' = "recommend"
    /\ UNCHANGED session
    /\ UNCHANGED << engine, adjust_call, mood_vector_call, extract_call,
                    track_info_call, llm_call >>

\* a call of get_playlist_mood_vector
MoodVectorCall ==
    /\ op = "idle"
    /\ \E t \in Playlists(feature_matrix_scaled) :
          LET out == get_playlist_mood_vector(feature_matrix_scaled, t)
          IN  /\ track_indices' = t
              /\ playlist_mood_vector' = out.vector
              /\ index_error' = out.raised
    /\ op' = "aggregate"
    /\ UNCHANGED session
    /\ UNCHANGED << engine, adjust_call, recommend_call, extract_call,
                    track_info_call, llm_call >>

\* a call of get_track_info
TrackInfoCall ==
    /\ op = "idle"
    /\ \E i \in TrackVals(feature_matrix_scaled) \cup { 0 - (df.len + 1) } :
          track_info' = get_track_info(df, i)
    /\ op' = "info"
    /\ UNCHANGED session
    /\ UNCHANGED << engine, adjust_call, recommend_call, mood_vector_call,
                    extract_call, llm_call >>

\* the recommender tab's query: extract, aggregate over the playlist, adjust,
\* rank with the playlist excluded; an IndexError of the aggregator ends it
QueryCall ==
    /\ op = "idle"
    /\ \E u \in QueryTexts, t \in Playlists(feature_matrix_scaled) :
          LET a    == extract(u)
              base == get_playlist_mood_vector(feature_matrix_scaled, t)
              seen == adjust_outcome(base.vector, a)
              adj  == seen.returned
              out  == recommend_by_mood_vector(feature_matrix_scaled, argsort_ties,
                                               adj, QueryN, t)
          IN  /\ user_message' = u
              /\ extracted' = a
              /\ track_indices' = t
              /\ playlist_mood_vector' = base.vector
              /\ index_error' = base.raised
              /\ IF base.raised
                 THEN /\ base_vector' = << >>
                      /\ adjustments' = << >>
                      /\ adjusted' = << >>
                      /\ arguments_after' = << >>
                      /\ mood_vector' = << >>
                      /\ n_recommendations' = 0
                      /\ exclude_indices' = << >>
                      /\ recommendations' = << >>
                      /\ raised' = FALSE
                      /\ repeated' = << >>
                 ELSE /\ base_vector' = base.vector
                      /\ adjustments' = a
                      /\ adjusted' = adj
                      /\ arguments_after' = << seen.base_vector, seen.adjustments >>
                      /\ mood_vector' = adj
                      /\ n_recommendations' = QueryN
                      /\ exclude_indices' = t
                      /\ recommendations' = out.list
                      /\ raised' = out.raised
                      /\ repeated' = << >>
    /\ op' = "query"
    /\ UNCHANGED session
    /\ UNCHANGED << engine, track_info_call, llm_call >>

\* the caller has used the outcome; the engine is ready for the next call
Return ==
    /\ op # "idle"
    /\ op' = "idle"
    /\ UNCHANGED session
    /\ base_vector' = << >>
    /\ adjustments' = << >>
    /\ adjusted' = << >>
    /\ mood_vector' = << >>
    /\ n_recommendations' = 0
    /\ exclude_indices' = << >>
    /\ recommendations' = << >>
    /\ raised' = FALSE
    /\ repeated' = << >>
    /\ track_indices' = << >>
    /\ playlist_mood_vector' = << >>
    /\ index_error' = FALSE
    /\ user_message' = << >>
    /\ extracted' = << >>
    /\ arguments_after' = << >>
    /\ track_info' = << >>
    /\ UNCHANGED << engine, llm_call >>

Next ==
    \/ RecommendCall
    \/ MoodVectorCall
    \/ TrackInfoCall
    \/ QueryCall
    \/ Return

Spec == Init /\ [][Next]_vars

\* ------------------------------------------- the extractor on its own
NoEngine ==
    /\ df = << >>
    /\ feature_matrix = << >>
    /\ scaler = << >>
    /\ feature_matrix_scaled = << >>
    /\ init_error = FALSE
    /\ argsort_ties = << >>

\* a MoodExtractor, no call made yet
ExtractorInit ==
    /\ NoEngine
    /\ op = "idle"
    /\ NoAdjustCall
    /\ NoRecommendCall
    /\ NoMoodVectorCall
    /\ NoExtractCall
    /\ NoTrackInfoCall
    /\ NoLLMCall
    /\ NoSession

\* a call of MoodExtractor.extract
ExtractCall ==
    /\ op = "idle"
    /\ \E u \in Texts :
          /\ user_message' = u
          /\ extracted' = extract(u)
    /\ op' = "extract"
    /\ UNCHANGED session
    /\ UNCHANGED << engine, adjust_call, recommend_call, mood_vector_call,
                    track_info_call, llm_call >>

\* the caller has used the dict
ExtractReturn ==
    /\ op = "extract"
    /\ op' = "idle"
    /\ UNCHANGED session
    /\ user_message' = << >>
    /\ extracted' = << >>
    /\ UNCHANGED << engine, adjust_call, recommend_call, mood_vector_call,
                    track_info_call, llm_call >>

ExtractorNext == ExtractCall \/ ExtractReturn

ExtractorSpec == ExtractorInit /\ [][ExtractorNext]_vars

\* ------------------------------------------ recommend_by_mood_vector twice
\* a call of recommend_by_mood_vector that the caller is going to repeat
RepeatFirst ==
    /\ RecommendCall
    /\ Len(exclude_indices') <= MaxRepeatExclude

\* the caller makes the call again, with the same three arguments
RepeatSecond ==
    /\ op = "recommend"
    /\ repeated = << >>
    /\ LET out == recommend_by_mood_vector(feature_matrix_scaled,
                                           ties_of_call(argsort_ties, 2),
                                           mood_vector, n_recommendations,
                                           exclude_indices)
       IN  repeated' = [raised |-> out.raised, list |-> out.list]
    /\ UNCHANGED session
    /\ UNCHANGED << engine, op, adjust_call, mood_vector, n_recommendations,
                    exclude_indices, recommendations, raised, mood_vector_call,
                    extract_call, track_info_call, llm_call >>

RepeatNext == RepeatFirst \/ RepeatSecond \/ Return

RepeatSpec == Init /\ [][RepeatNext]_vars

\* ------------------------------------ adjust_mood_vector_with_constraints
\* The method reads feature_cols and the constraint table only, no field an
\* engine is built with: its calls with arguments of the caller's choice are
\* explored on their own.
AdjustInit ==
    /\ NoEngine
    /\ op = "idle"
    /\ NoAdjustCall
    /\ NoRecommendCall
    /\ NoMoodVectorCall
    /\ NoExtractCall
    /\ NoTrackInfoCall
    /\ NoLLMCall
    /\ NoSession

\* the caller has used the vector
AdjustReturn ==
    /\ op = "adjust"
    /\ op' = "idle"
    /\ UNCHANGED session
    /\ base_vector' = << >>
    /\ adjustments' = << >>
    /\ adjusted' = << >>
    /\ arguments_after' = << >>
    /\ UNCHANGED << engine, recommend_call, mood_vector_call, extract_call,
                    track_info_call, llm_call >>

AdjustNext == AdjustCall \/ AdjustReturn

AdjustSpec == AdjustInit /\ [][AdjustNext]_vars

\* ------------------------------------------- engine construction on its own
calls == << adjust_call, recommend_call, mood_vector_call, extract_call,
           track_info_call, llm_call >>

\* no engine yet
BuildInit ==
    /\ NoEngine
    /\ op = "idle"
    /\ NoAdjustCall
    /\ NoRecommendCall
    /\ NoMoodVectorCall
    /\ NoExtractCall
    /\ NoTrackInfoCall
    /\ NoLLMCall
    /\ NoSession

\* SpotifyRecSysConstrained(dataset): the fields the constructor has set, up
\* to the statement that raised if one did
Construct ==
    /\ op = "idle"
    /\ \E dataset \in Datasets :
          LET self == __init__(dataset)
          IN  /\ init_error' = self.raised
              /\ df' = self.df
              /\ feature_matrix' = self.feature_matrix
              /\ scaler' = self.scaler
              /\ feature_matrix_scaled' = self.feature_matrix_scaled
              /\ argsort_ties' \in TieRanks(self.feature_matrix_scaled)
    /\ op' = "build"
    /\ UNCHANGED session
    /\ UNCHANGED calls

\* the engine is dropped
Discard ==
    /\ op = "build"
    /\ op' = "idle"
    /\ UNCHANGED session
    /\ df' = << >>
    /\ feature_matrix' = << >>
    /\ scaler' = << >>
    /\ feature_matrix_scaled' = << >>
    /\ init_error' = FALSE
    /\ argsort_ties' = << >>
    /\ UNCHANGED calls

BuildNext == Construct \/ Discard

BuildSpec == BuildInit /\ [][BuildNext]_vars

\* ------------------------------------------- the LLM client on its own
\* no client yet
LLMInit ==
    /\ NoEngine
    /\ op = "idle"
    /\ NoAdjustCall
    /\ NoRecommendCall
    /\ NoMoodVectorCall
    /\ NoExtractCall
    /\ NoTrackInfoCall
    /\ NoLLMCall
    /\ NoSession

\* HuggingFaceLLM(api_key).extract_adjustments(user_message); with a key the
\* remote service answers in one of its ways
ExtractAdjustmentsCall ==
    /\ op = "idle"
    /\ \E key \in { "", "hf_key" }, u \in FallbackTexts :
          \E answer \in IF key = "" THEN { NoResponse } ELSE Responses :
              /\ api_key' = key
              /\ user_message' = u
              /\ response' = answer
              /\ llm_adjustments' = extract_adjustments(key, answer, u)
    /\ op' = "llm"
    /\ UNCHANGED session
    /\ UNCHANGED << engine, adjust_call, recommend_call, mood_vector_call,
                    track_info_call, extracted >>

\* the caller has used the value
ExtractAdjustmentsReturn ==
    /\ op = "llm"
    /\ op' = "idle"
    /\ UNCHANGED session
    /\ api_key' = ""
    /\ user_message' = << >>
    /\ response' = NoResponse
    /\ llm_adjustments' = << >>
    /\ UNCHANGED << engine, adjust_call, recommend_call, mood_vector_call,
                    track_info_call, extracted >>

LLMNext == ExtractAdjustmentsCall \/ ExtractAdjustmentsReturn

LLMSpec == LLMInit /\ [][LLMNext]_vars

\* ------------------------------------------------------------ the Flask app
\* Requests run in threads of their own; a handler's step is the statements
\* between two reads or writes of globals that another request can separate.
\* At most one train_model and one chat request are in flight.

SessionInit ==
    /\ NoEngine
    /\ op = "idle"
    /\ NoAdjustCall
    /\ NoRecommendCall
    /\ NoMoodVectorCall
    /\ NoExtractCall
    /\ NoTrackInfoCall
    /\ NoLLMCall
    /\ NoSession

\* upload_data
UploadData ==
    /\ \E dataset \in SessionDatasets : df_raw' = dataset
    /\ df_raw' # df_raw
    /\ UNCHANGED << engine, calls, op, llm, current_playlist, excluded_tracks,
                    model_trained, train_request, chat_request, history >>

\* clear_playlist
ClearPlaylist ==
    /\ current_playlist # << >> \/ excluded_tracks # {}
    /\ current_playlist' = << >>
    /\ excluded_tracks' = {}
    /\ recommended' = NoneRecommended
    /\ UNCHANGED << engine, calls, op, df_raw, llm, model_trained, train_request,
                    chat_request, requests, version, observed >>

\* add_tracks: current_playlist.extend(indices), the indices as the request
\* gives them
AddTracks ==
    /\ \E indices \in AddLists :
          /\ Len(current_playlist) + Len(indices) <= MaxPlaylist
          /\ current_playlist' = current_playlist \o indices
    /\ UNCHANGED << engine, calls, op, df_raw, llm, excluded_tracks, model_trained,
                    train_request, chat_request, history >>

\* reset, with an engine loaded: a new random playlist, excluded with it
Reset ==
    /\ df # << >>
    /\ current_playlist' \in get_random_tracks(df.len, RandomTracksN)
    /\ excluded_tracks' = { current_playlist'[k] : k \in DOMAIN current_playlist' }
    /\ current_playlist' # current_playlist \/ excluded_tracks' # excluded_tracks
    /\ recommended' = NoneRecommended
    /\ UNCHANGED << engine, calls, op, df_raw, llm, model_trained, train_request,
                    chat_request, requests, version, observed >>

\* train_model up to the assignment of recsys: 400 without an upload or
\* without a row left, 500 when the constructor raises
TrainModelRecsys ==
    /\ train_pc = "idle"
    /\ requests.train_model < MaxTrainings
    /\ requests' = [requests EXCEPT !.train_model = @ + 1]
    /\ recommended' = NoneRecommended
    /\ IF df_raw = << >>
       THEN /\ train_status' = 400
            /\ train_pc' = "done"
            /\ train_changed' = FALSE
            /\ UNCHANGED << engine, version >>
       ELSE LET df_clean == validate_and_clean(df_raw)
                self     == __init__(df_clean)
            IN  IF df_clean.len = 0 \/ self.raised
                THEN /\ train_status' = IF df_clean.len = 0 THEN 400 ELSE 500
                     /\ train_pc' = "done"
                     /\ train_changed' = FALSE
                     /\ UNCHANGED << engine, version >>
                ELSE /\ init_error' = FALSE
                     /\ df' = self.df
                     /\ feature_matrix' = self.feature_matrix
                     /\ scaler' = self.scaler
                     /\ feature_matrix_scaled' = self.feature_matrix_scaled
                     /\ argsort_ties' \in TieRanks(self.feature_matrix_scaled)
                     /\ version' = [version EXCEPT !.recsys = requests.train_model + 1]
                     /\ train_changed' = (df' # df)
                     /\ train_status' = 0
                     /\ train_pc' = "410"
    /\ UNCHANGED << calls, op, globals, chat_request, observed >>

\* api_key = request.json.get(...) and llm = HuggingFaceLLM(api_key);
\* request.json raises for a body that is no JSON, which is answered 500
TrainModelLLM ==
    /\ train_pc = "410"
    /\ \E body \in { "no JSON", "", "hf_key" } :
          IF body = "no JSON"
          THEN /\ train_status' = 500
               /\ train_pc' = "done"
               /\ UNCHANGED << llm, version, train_changed >>
          ELSE /\ llm' = [api_key |-> body]
               /\ version' = [version EXCEPT !.llm = requests.train_model]
               /\ train_changed' = (train_changed \/ llm' # llm)
               /\ train_pc' = "413"
               /\ UNCHANGED train_status
    /\ recommended' = NoneRecommended
    /\ UNCHANGED << engine, calls, op, df_raw, current_playlist, excluded_tracks,
                    model_trained, chat_request, requests, observed >>

\* current_playlist = recsys.get_random_tracks(5)
TrainModelPlaylist ==
    /\ train_pc = "413"
    /\ current_playlist' \in get_random_tracks(df.len, RandomTracksN)
    /\ version' = [version EXCEPT !.current_playlist = requests.train_model]
    /\ train_changed' = (train_changed \/ current_playlist' # current_playlist)
    /\ train_pc' = "414"
    /\ recommended' = NoneRecommended
    /\ UNCHANGED << engine, calls, op, df_raw, llm, excluded_tracks, model_trained,
                    train_status, chat_request, requests, observed >>

\* excluded_tracks = set(current_playlist)
TrainModelExcluded ==
    /\ train_pc = "414"
    /\ excluded_tracks' = { current_playlist[k] : k \in DOMAIN current_playlist }
    /\ version' = [version EXCEPT !.excluded_tracks = requests.train_model]
    /\ train_changed' = (train_changed \/ excluded_tracks' # excluded_tracks)
    /\ train_pc' = "416"
    /\ recommended' = NoneRecommended
    /\ UNCHANGED << engine, calls, op, df_raw, llm, current_playlist, model_trained,
                    train_status, chat_request, requests, observed >>

\* model_trained = True
TrainModelTrained ==
    /\ train_pc = "416"
    /\ model_trained' = TRUE
    /\ train_changed' = (train_changed \/ ~model_trained)
    /\ train_pc' = "418"
    /\ recommended' = NoneRecommended
    /\ UNCHANGED << engine, calls, op, df_raw, llm, current_playlist,
                    excluded_tracks, train_status, chat_request, requests, version, observed >>

\* playlist_info and the response: 500 when get_track_info raises for a
\* track of the playlist
TrainModelRespond ==
    /\ train_pc = "418"
    /\ IF \E k \in DOMAIN current_playlist :
             app_get_track_info(df, current_playlist[k]).raised
       THEN /\ train_status' = 500
            /\ UNCHANGED requests
       ELSE /\ train_status' = 200
            /\ requests' = [requests EXCEPT !.answered_200 = @ + 1]
    /\ train_pc' = "done"
    /\ recommended' = NoneRecommended
    /\ UNCHANGED << engine, calls, op, globals, train_changed, chat_request,
                    version, observed >>

\* the response is sent
TrainModelReturn ==
    /\ train_pc = "done"
    /\ train_pc' = "idle"
    /\ train_status' = 0
    /\ train_changed' = FALSE
    /\ UNCHANGED << engine, calls, op, globals, chat_request, history >>

\* chat up to the message check: 400 without a trained model or a message
ChatGuard ==
    /\ chat_pc = "idle"
    /\ \E u \in ChatTexts \cup { << >> } :
          /\ user_message' = u
          /\ IF df = << >> \/ llm = << >> \/ ~model_trained \/ u = << >>
             THEN chat_status' = 400 /\ chat_pc' = "done"
             ELSE chat_status' = 0 /\ chat_pc' = "459"
    /\ UNCHANGED << engine, adjust_call, recommend_call, mood_vector_call,
                    extracted, track_info_call, llm_call, op, globals,
                    formatted_recommendations, train_request, history >>

\* adjustments = llm.extract_adjustments(user_message)
ChatExtract ==
    /\ chat_pc = "459"
    /\ \E answer \in IF llm.api_key = "" THEN { NoResponse } ELSE SessionResponses :
          /\ response' = answer
          /\ llm_adjustments' = extract_adjustments(llm.api_key, answer, user_message)
    /\ api_key' = llm.api_key
    /\ observed' = [observed EXCEPT !.llm = version.llm]
    /\ chat_pc' = "460"
    /\ UNCHANGED << engine, adjust_call, recommend_call, mood_vector_call,
                    extract_call, track_info_call, op, globals, chat_status,
                    formatted_recommendations, train_request, recommended, requests, version >>

\* base_mood and adjusted_mood; an exception gives the 500 response
ChatMood ==
    /\ chat_pc = "460"
    /\ LET base == get_playlist_mood_vector(feature_matrix_scaled, current_playlist)
       IN  /\ track_indices' = current_playlist
           /\ playlist_mood_vector' = base.vector
           /\ index_error' = base.raised
           /\ IF base.raised \/ llm_adjustments.kind # "object"
              THEN /\ chat_status' = 500
                   /\ chat_pc' = "done"
                   /\ UNCHANGED adjust_call
              ELSE LET out == adjust_outcome(base.vector, llm_adjustments.dict)
                   IN  /\ base_vector' = base.vector
                       /\ adjustments' = llm_adjustments.dict
                       /\ adjusted' = out.returned
                       /\ arguments_after' = << out.base_vector, out.adjustments >>
                       /\ chat_pc' = "463"
                       /\ UNCHANGED chat_status
    /\ observed' = [observed EXCEPT !.recsys_at_460 = version.recsys,
                                    !.current_playlist = version.current_playlist]
    /\ UNCHANGED << engine, recommend_call, extract_call, track_info_call,
                    llm_call, op, globals, formatted_recommendations,
                    train_request, recommended, requests, version >>

\* exclude_list and recommendations
ChatRecommend ==
    /\ chat_pc = "463"
    /\ LET exclude_list == list(excluded_tracks)
           out == recommend_by_mood_vector(feature_matrix_scaled, argsort_ties,
                                           adjusted, ChatN, exclude_list)
       IN  /\ mood_vector' = adjusted
           /\ n_recommendations' = ChatN
           /\ exclude_indices' = exclude_list
           /\ recommendations' = out.list
           /\ raised' = out.raised
           /\ repeated' = << >>
           /\ IF out.raised
              THEN chat_status' = 500 /\ chat_pc' = "done"
              ELSE chat_status' = 0 /\ chat_pc' = "471"
    /\ observed' = [observed EXCEPT !.excluded_tracks = version.excluded_tracks,
                                    !.recsys_at_464 = version.recsys]
    /\ UNCHANGED << engine, adjust_call, mood_vector_call, extract_call,
                    track_info_call, llm_call, op, globals,
                    formatted_recommendations, train_request, recommended, requests, version >>

\* one turn of the loop over the recommendations: the track is formatted and
\* added to excluded_tracks; 500 when get_track_info raises
ChatFormat ==
    /\ chat_pc = "471"
    /\ Len(formatted_recommendations) < Len(recommendations)
    /\ LET track_idx == recommendations[Len(formatted_recommendations) + 1][1]
       IN  IF app_get_track_info(df, track_idx).raised
           THEN /\ chat_status' = 500
                /\ chat_pc' = "done"
                /\ UNCHANGED << formatted_recommendations, excluded_tracks >>
           ELSE /\ formatted_recommendations' =
                      Append(formatted_recommendations, track_idx)
                /\ excluded_tracks' = excluded_tracks \cup { track_idx }
                /\ UNCHANGED << chat_pc, chat_status >>
    /\ UNCHANGED << engine, calls, op, df_raw, llm, current_playlist,
                    model_trained, train_request, history >>

\* the loop is over: the 200 response with the formatted tracks
ChatRespond ==
    /\ chat_pc = "471"
    /\ Len(formatted_recommendations) = Len(recommendations)
    /\ chat_status' = 200
    /\ chat_pc' = "done"
    /\ recommended' = Returning({ formatted_recommendations[k] :
                                    k \in DOMAIN formatted_recommendations })
    /\ UNCHANGED << engine, calls, op, globals, formatted_recommendations,
                    train_request, requests, version, observed >>

\* the response is sent; the request's locals are gone
ChatReturn ==
    /\ chat_pc = "done"
    /\ chat_pc' = "idle"
    /\ chat_status' = 0
    /\ formatted_recommendations' = << >>
    /\ observed' = Unread
    /\ base_vector' = << >>
    /\ adjustments' = << >>
    /\ adjusted' = << >>
    /\ arguments_after' = << >>
    /\ mood_vector' = << >>
    /\ n_recommendations' = 0
    /\ exclude_indices' = << >>
    /\ recommendations' = << >>
    /\ raised' = FALSE
    /\ repeated' = << >>
    /\ track_indices' = << >>
    /\ playlist_mood_vector' = << >>
    /\ index_error' = FALSE
    /\ user_message' = << >>
    /\ api_key' = ""
    /\ response' = NoResponse
    /\ llm_adjustments' = << >>
    /\ UNCHANGED << engine, extracted, track_info_call, op, globals,
                    train_request, recommended, requests, version >>

SessionNext ==
    \/ UploadData
    \/ ClearPlaylist
    \/ TrainModelRecsys
    \/ TrainModelLLM
    \/ TrainModelPlaylist
    \/ TrainModelExcluded
    \/ TrainModelTrained
    \/ TrainModelRespond
    \/ TrainModelReturn
    \/ ChatGuard
    \/ ChatExtract
    \/ ChatMood
    \/ ChatRecommend
    \/ ChatFormat
    \/ ChatRespond
    \/ ChatReturn

SessionSpec == SessionInit /\ [][SessionNext]_vars

-----------------------------------------------------------------------------
(* The Flask app after a training: two chat requests, add_tracks, reset and
   clear_playlist *)

\* the upload of the trained sessions: a catalog of two tracks
ChatsDatasets == { TableC }

\* the session a successful train_model leaves, trained without an api key
ChatsInit ==
    /\ \E dataset \in ChatsDatasets :
          LET self == __init__(validate_and_clean(dataset))
          IN  /\ df_raw = dataset
              /\ init_error = self.raised
              /\ df = self.df
              /\ feature_matrix = self.feature_matrix
              /\ scaler = self.scaler
              /\ feature_matrix_scaled = self.feature_matrix_scaled
              /\ argsort_ties \in TieRanks(self.feature_matrix_scaled)
              /\ current_playlist \in get_random_tracks(self.df.len, RandomTracksN)
    /\ excluded_tracks = { current_playlist[k] : k \in DOMAIN current_playlist }
    /\ llm = [api_key |-> ""]
    /\ model_trained = TRUE
    /\ op = "idle"
    /\ NoAdjustCall
    /\ NoRecommendCall
    /\ NoMoodVectorCall
    /\ NoExtractCall
    /\ NoTrackInfoCall
    /\ NoLLMCall
    /\ train_pc = "idle"
    /\ train_status = 0
    /\ train_changed = FALSE
    /\ chat_pc = "idle"
    /\ chat_status = 0
    /\ formatted_recommendations = << >>
    /\ recommended = NoneRecommended
    /\ requests = [train_model |-> 1, answered_200 |-> 1]
    /\ version = [recsys |-> 1, llm |-> 1, current_playlist |-> 1, excluded_tracks |-> 1]
    /\ observed = Unread

\* chat, handled from its first line to its response by another thread: the
\* tracks formatted before the response are added to excluded_tracks, and
\* the 200 response returns them
OtherChat ==
    /\ df # << >>
    /\ llm # << >>
    /\ model_trained
    /\ \E u \in ChatTexts :
       \E found \in { extract_adjustments(llm.api_key, NoResponse, u) } :
       \E base \in { get_playlist_mood_vector(feature_matrix_scaled, current_playlist) } :
          /\ ~base.raised
          /\ found.kind = "object"
          /\ \E out \in { recommend_by_mood_vector(feature_matrix_scaled, argsort_ties,
                             adjust_outcome(base.vector, found.dict).returned,
                             ChatN, list(excluded_tracks)) } :
             \E failed \in { { k \in DOMAIN out.list :
                                 app_get_track_info(df, out.list[k][1]).raised } } :
             \E added \in { { out.list[k][1] :
                                k \in { j \in DOMAIN out.list :
                                          \A f \in failed : j < f } } } :
                /\ ~out.raised
                /\ added # {}
                /\ excluded_tracks' = excluded_tracks \cup added
                /\ recommended' = IF failed = {} THEN Returning(added)
                                  ELSE recommended
    /\ UNCHANGED << engine, calls, op, df_raw, llm, current_playlist, model_trained,
                    train_request, chat_request, requests, version, observed >>

ChatsNext ==
    \/ AddTracks
    \/ Reset
    \/ ClearPlaylist
    \/ OtherChat
    \/ ChatGuard
    \/ ChatExtract
    \/ ChatMood
    \/ ChatRecommend
    \/ ChatFormat
    \/ ChatRespond
    \/ ChatReturn

ChatsSpec == ChatsInit /\ [][ChatsNext]_vars

\* ------------------------------------------------------------ properties
Range(s) == { s[k] : k \in DOMAIN s }

\* the delta given for a feature: 0 when the map has no such key
DeltaOf(a, feature) == IF feature \in Keys(a) THEN Get(a, feature) ELSE 0

\* position of a key in the map's iteration order
PositionOf(a, feature) == CHOOSE k \in DOMAIN a : a[k][1] = feature

InClipRange(x) == ClipLo <= x /\ x <= ClipHi

Saturate(x) == IF x < ClipLo THEN ClipLo ELSE IF x > ClipHi THEN ClipHi ELSE x

\* value of a feature after the primary pass
PrimaryValue(base, a, feature) ==
    IF feature \in Keys(a)
    THEN Saturate(base[index(feature)] + Get(a, feature))
    ELSE base[index(feature)]

\* C2: every component of the vector returned by
\* adjust_mood_vector_with_constraints lies in [-3, 3], for any base vector
\* and any delta map.
C2_OutputInClipRange ==
    op = "adjust" => \A k \in FeatureIdx : InClipRange(adjusted[k])

AllDeltasZero(a) == \A k \in DOMAIN a : a[k][2] = 0

ActiveRule(a, trigger, dependent, mode) ==
    /\ trigger \in Keys(a) \cap Triggers
    /\ Get(a, trigger) # 0
    /\ mode \in { "soft", "increase", "decrease" }
    /\ << dependent, mode >> \in
          Range(IF Get(a, trigger) > 0
                THEN feature_constraints[trigger].positive
                ELSE feature_constraints[trigger].negative)

\* C4: a feature whose delta in the map passed by the caller is nonzero ends
\* with exactly clip(base + delta, -3, 3): the propagation pass leaves it alone.
C4_ExplicitDeltaIsFinal ==
    op = "adjust" =>
        \A k \in DOMAIN adjustments :
            (adjustments[k][1] \in FeatureNames /\ adjustments[k][2] # 0) =>
                adjusted[index(adjustments[k][1])] =
                    Saturate(base_vector[index(adjustments[k][1])] + adjustments[k][2])

\* an active trigger whose dependent has a nonzero delta of its own, the
\* primary pass having left that dependent at its base value (saturated)
C4_Witness ==
    /\ op = "adjust"
    /\ \E t \in Triggers, f \in FeatureNames, mode \in { "soft", "increase", "decrease" } :
          /\ ActiveRule(adjustments, t, f, mode)
          /\ DeltaOf(adjustments, f) # 0
          /\ adjusted[index(f)] = base_vector[index(f)]
          /\ mode = "decrease"

\* the effect of one rule on a dependent's current value
ModeEffect(mode, value, d) ==
    CASE mode = "soft" -> value \div 2
      [] mode = "increase" -> Saturate(value + (2 * (IF d < 0 THEN 0 - d ELSE d)) \div 5)
      [] mode = "decrease" -> Saturate(value - (2 * (IF d < 0 THEN 0 - d ELSE d)) \div 5)

\* the rules that act on a dependent, as << trigger, mode >>
RulesOn(a, dependent) ==
    { tm \in Triggers \X { "soft", "increase", "decrease" } :
        ActiveRule(a, tm[1], dependent, tm[2]) }

\* C5: a dependent with zero or absent delta on which one rule acts ends with
\* that rule's effect on its value after the primary pass: soft halves it
\* whatever the trigger's delta d, increase gives clip(value + 0.4*|d|, -3, 3),
\* decrease gives clip(value - 0.4*|d|, -3, 3); the rule-set is 'positive'
\* for d > 0 and 'negative' for d < 0.
C5_ModeEffects ==
    op = "adjust" =>
        \A f \in FeatureNames :
            (DeltaOf(adjustments, f) = 0 /\ Cardinality(RulesOn(adjustments, f)) = 1) =>
                LET tm == CHOOSE x \in RulesOn(adjustments, f) : TRUE
                IN  adjusted[index(f)] =
                        ModeEffect(tm[2], PrimaryValue(base_vector, adjustments, f),
                                   Get(adjustments, tm[1]))

\* acousticness > 0 alone acts: it halves a nonzero energy and raises
\* instrumentalness
C5_Witness ==
    /\ op = "adjust"
    /\ RulesOn(adjustments, "energy") = { << "acousticness", "soft" >> }
    /\ RulesOn(adjustments, "instrumentalness") = { << "acousticness", "increase" >> }
    /\ DeltaOf(adjustments, "energy") = 0
    /\ DeltaOf(adjustments, "instrumentalness") = 0
    /\ base_vector[index("energy")] # 0
    /\ 2 * adjusted[index("energy")] = base_vector[index("energy")]
    /\ adjusted[index("instrumentalness")] > base_vector[index("instrumentalness")]

\* acousticness > 0 (soft on energy) and valence # 0 (increase or decrease on
\* energy) both act on an energy the caller did not adjust
BothActOnEnergy(a) ==
    /\ DeltaOf(a, "energy") = 0
    /\ DeltaOf(a, "acousticness") > 0
    /\ DeltaOf(a, "valence") # 0

\* C6: when acousticness and valence both act on energy, the two effects are
\* applied in the iteration order of the delta map, the second on the result
\* of the first.
C6_EffectsInMapOrder ==
    (op = "adjust" /\ BothActOnEnergy(adjustments)) =>
        LET p == PrimaryValue(base_vector, adjustments, "energy")
            d == Get(adjustments, "valence")
            mode == IF d > 0 THEN "increase" ELSE "decrease"
        IN  adjusted[index("energy")] =
                IF PositionOf(adjustments, "acousticness") < PositionOf(adjustments, "valence")
                THEN ModeEffect(mode, ModeEffect("soft", p, d), d)
                ELSE ModeEffect("soft", ModeEffect(mode, p, d), d)

\* the same entries in the opposite key order give another adjusted vector
C6_Witness ==
    /\ op = "adjust"
    /\ BothActOnEnergy(adjustments)
    /\ adjust_mood_vector_with_constraints(base_vector, Reversed(adjustments)) # adjusted

\* the catalog positions returned by the call
Returned == { recommendations[k][1] : k \in DOMAIN recommendations }

CatalogPositions == DOMAIN feature_matrix_scaled

\* score of every catalog row against the call's mood vector
Cosine == cosine_similarity(mood_vector, feature_matrix_scaled)

IsPositive(score) == score.num > 0

\* C1: no index of exclude appears in the returned list, and a call whose
\* exclude contains every catalog index returns the empty list and raises no
\* error.
C1_ExcludedNeverReturned ==
    op = "recommend" =>
        /\ \A e \in Range(exclude_indices) : e \notin Returned
        /\ CatalogPositions \subseteq Range(exclude_indices) =>
              (~raised /\ recommendations = << >>)

\* C7: the returned list is in non-increasing order of score.
C7_SortedByScoreDescending ==
    (op = "recommend" /\ ~raised) =>
        \A k \in 1 .. Len(recommendations) - 1 :
            ~ScoreLess(recommendations[k][2], recommendations[k + 1][2])

\* two entries of different scores are returned
C7_Witness ==
    /\ op = "recommend"
    /\ ~raised
    /\ Len(recommendations) >= 2
    /\ ScoreLess(recommendations[2][2], recommendations[1][2])

\* exclude names the position neither directly nor as a negative index
NotExcluded(i) ==
    /\ i \notin Range(exclude_indices)
    /\ i - Cardinality(CatalogPositions) \notin Range(exclude_indices)

\* C8: of two items of equal score the one with the smaller catalog index comes
\* first, and when the truncation to n cuts through a group of equal scores the
\* smaller indices are kept.
C8_TiesByAscendingIndex ==
    (op = "recommend" /\ ~raised) =>
        /\ \A k \in 1 .. Len(recommendations) - 1 :
              recommendations[k][2] = recommendations[k + 1][2] =>
                  recommendations[k][1] < recommendations[k + 1][1]
        /\ \A k \in DOMAIN recommendations :
              \A j \in CatalogPositions \ Returned :
                  (NotExcluded(j) /\ Cosine[j] = recommendations[k][2]) =>
                      recommendations[k][1] < j

\* C9: only entries of strictly positive score are returned, at most n of
\* them, and exactly min(n, P) where P is the number of items of positive
\* score that exclude does not name; fewer than n is no error.
C9_PositiveTopN ==
    op = "recommend" =>
        LET P == Cardinality({ i \in CatalogPositions :
                                 i \notin Range(exclude_indices) /\ IsPositive(Cosine[i]) })
        IN  /\ ~raised
            /\ \A k \in DOMAIN recommendations : IsPositive(recommendations[k][2])
            /\ Len(recommendations) <= n_recommendations
            /\ Len(recommendations) = Min(n_recommendations, P)

\* exclude without the indices that are no catalog position
ValidExcludes ==
    SelectSeq(exclude_indices, LAMBDA e : e \in CatalogPositions)

\* C10: an index of exclude that is no catalog position is ignored: the call
\* raises no error and returns the list of the call without that index.
C10_InvalidExcludeIgnored ==
    op = "recommend" =>
        /\ ~raised
        /\ recommendations =
              recommend_by_mood_vector(feature_matrix_scaled, argsort_ties, mood_vector,
                                       n_recommendations, ValidExcludes).list

\* --------------------------------------------------------------- aggregator
ValidTracks ==
    \A p \in DOMAIN track_indices : track_indices[p] \in CatalogPositions

\* how often position i occurs in the list
Occurrences(t, i) == Cardinality({ p \in DOMAIN t : t[p] = i })

RECURSIVE WeightedSum(_, _, _, _)
WeightedSum(matrix, t, k, positions) ==
    IF positions = {} THEN 0
    ELSE LET i == CHOOSE x \in positions : TRUE
         IN  Occurrences(t, i) * matrix[i][k]
               + WeightedSum(matrix, t, k, positions \ { i })

\* C11: for the empty list the aggregator raises nothing and returns the zero
\* vector of length 9, and a query over an empty playlist returns as adjusted
\* vector what adjust gives for the zero vector and the extracted deltas
C11_EmptyPlaylistGivesZeroVector ==
    (op \in { "aggregate", "query" } /\ track_indices = << >>) =>
        /\ ~index_error
        /\ Len(playlist_mood_vector) = 9
        /\ \A k \in 1 .. 9 : playlist_mood_vector[k] = 0
        /\ op = "query" =>
              /\ base_vector = playlist_mood_vector
              /\ adjusted = adjust_mood_vector_with_constraints(
                                [k \in 1 .. 9 |-> 0], extracted)

\* a query over the empty playlist whose message holds a keyword: the adjusted
\* vector is not zero and the ranker returns items
C11_Witness ==
    /\ op = "query"
    /\ track_indices = << >>
    /\ \E k \in 1 .. 9 : adjusted[k] # 0
    /\ recommendations # << >>

\* C12: for a non-empty list of catalog positions the aggregator returns the
\* column-wise arithmetic mean of the standardized rows at the positions, each
\* occurrence of a position counted: the sum of the components, which depends
\* on how often each position occurs and not on the order, is the list's
\* length times the returned component; for a one-entry list the vector is
\* the row itself
C12_MeanOfRowsWithRepeats ==
    (op = "aggregate" /\ track_indices # << >> /\ ValidTracks) =>
        /\ ~index_error
        /\ DOMAIN playlist_mood_vector = FeatureIdx
        /\ \A k \in FeatureIdx :
              Len(track_indices) * playlist_mood_vector[k]
                = WeightedSum(feature_matrix_scaled, track_indices, k, CatalogPositions)
        /\ Len(track_indices) = 1 =>
              playlist_mood_vector = feature_matrix_scaled[track_indices[1]]

\* a list [i, i, j] whose mean differs from the mean of rows i and j
C12_Witness ==
    /\ op = "aggregate"
    /\ ~index_error
    /\ Len(track_indices) = 3
    /\ ValidTracks
    /\ track_indices[1] = track_indices[2]
    /\ track_indices[3] # track_indices[1]
    /\ \E k \in FeatureIdx :
          2 * playlist_mood_vector[k]
            # feature_matrix_scaled[track_indices[1]][k]
                + feature_matrix_scaled[track_indices[3]][k]

\* ---------------------------------------------------------------- extractor
\* the text with A-Z replaced by a-z
LowerCased(text) ==
    [p \in DOMAIN text |->
        LET hits == { k \in DOMAIN uppercase : uppercase[k] = text[p] }
        IN  IF hits = {} THEN text[p] ELSE lowercase[CHOOSE k \in hits : TRUE]]

\* the keyword stands somewhere in the text, word bounds or not
Occurs(keyword, text) ==
    \E p \in 0 .. Len(text) - Len(keyword) :
        \A q \in DOMAIN keyword : text[p + q] = keyword[q]

\* rules whose keyword occurs in the lower-cased text
Matching(text) ==
    LET low == LowerCased(text)
    IN  { k \in DOMAIN mood_rules : Occurs(mood_rules[k].keyword, low) }

\* rules of the table that give the feature a delta
Setting(feature) ==
    { k \in DOMAIN mood_rules :
        \E j \in DOMAIN mood_rules[k].values : mood_rules[k].values[j][1] = feature }

DeltaIn(k, feature) ==
    LET values == mood_rules[k].values
    IN  values[CHOOSE j \in DOMAIN values : values[j][1] = feature][2]

Last(S) == CHOOSE k \in S : \A j \in S : j <= k

\* C13: extract returns a map with exactly the 9 feature names; a feature's
\* value is a delta of a keyword that occurs as a substring of the lower-cased
\* text (no word bounds, capitals as small letters) when such a keyword sets
\* the feature, and 0 when none does, so a text without keywords gives the
\* all-zero map
C13_NineKeysFromOccurringKeywords ==
    op = "extract" =>
        /\ Len(extracted) = 9
        /\ Keys(extracted) = FeatureNames
        /\ LET matching == Matching(user_message)
           IN  \A f \in FeatureNames :
                   LET from == matching \cap Setting(f)
                   IN  IF from = {}
                       THEN Get(extracted, f) = 0
                       ELSE Get(extracted, f) \in { DeltaIn(k, f) : k \in from }

\* a keyword found only through lower-casing, inside a longer text, sets its
\* features and leaves the others 0
C13_Witness ==
    /\ op = "extract"
    /\ Len(user_message) > 3
    /\ Matching(user_message) = { 2 }
    /\ ~contains(user_message, mood_rules[2].keyword)
    /\ \A f \in FeatureNames :
          Get(extracted, f) = IF 2 \in Setting(f) THEN DeltaIn(2, f) ELSE 0

\* C14: when several occurring keywords set the same feature, the feature has
\* the delta of the last of them in rule-table order, whatever their order in
\* the text, and no sum; a feature set by one occurring keyword only has that
\* keyword's delta
C14_LastKeywordInTableOrderWins ==
    op = "extract" =>
        LET matching == Matching(user_message)
        IN  \A f \in FeatureNames :
                LET from == matching \cap Setting(f)
                IN  from # {} => Get(extracted, f) = DeltaIn(Last(from), f)

\* "sad" stands before "energetic" in the text and after it in the table:
\* energy and valence have the deltas of "sad", danceability that of
\* "energetic"
C14_Witness ==
    /\ op = "extract"
    /\ Matching(user_message) = { 1, 2 }
    /\ ~contains(SubSeq(user_message, 1, 9), mood_rules[1].keyword)
    /\ Get(extracted, "energy") = 0 - 5 * Tenth
    /\ Get(extracted, "valence") = 0 - 8 * Tenth
    /\ Get(extracted, "danceability") = 6 * Tenth
    /\ Get(extracted, "energy") # 7 * Tenth - 5 * Tenth

\* ------------------------------------------------------------- construction
Normalized == { "loudness", "tempo" }

NormOf(feature) == IF feature = "loudness" THEN "loudness_norm" ELSE "tempo_norm"

\* the dataframe has the feature, raw or as normalized variant
Available(feature) ==
    \/ feature \in DOMAIN df.columns
    \/ feature \in Normalized /\ NormOf(feature) \in DOMAIN df.columns

\* the column of the built matrix that stands for the feature
ColumnOf(feature) ==
    Cardinality({ k \in 1 .. index(feature) : Available(feature_cols[k]) })

\* C15: built over a dataset with loudness and tempo columns, the feature
\* matrix holds in its loudness and tempo columns the min-max normalized
\* values loudness_norm and tempo_norm, not the raw ones
C15_MatrixHoldsNormalizedColumns ==
    (op = "build" /\ Normalized \subseteq DOMAIN df.columns) =>
        \A f \in Normalized : \A i \in row_positions(df) :
            feature_matrix[i][ColumnOf(f)] = df.columns[NormOf(f)][i]

\* C16: a construction over a dataset that lacks a feature altogether fails,
\* and an engine that was constructed has a feature matrix of 9 columns, the
\* k-th of them the column of feature_cols[k], raw or normalized
C16_MissingFeatureFails ==
    op = "build" =>
        /\ (\E f \in FeatureNames : ~Available(f)) => init_error
        /\ ~init_error =>
              \A i \in row_positions(df) :
                  /\ DOMAIN feature_matrix[i] = FeatureIdx
                  /\ \A k \in FeatureIdx :
                        LET f == feature_cols[k]
                        IN  \/ /\ f \in DOMAIN df.columns
                               /\ feature_matrix[i][k] = df.columns[f][i]
                            \/ /\ f \in Normalized
                               /\ NormOf(f) \in DOMAIN df.columns
                               /\ feature_matrix[i][k] = df.columns[NormOf(f)][i]

\* C17: the normalized loudness and tempo values are numbers in [0, 1] for
\* every dataset, 0 in every row when the column's maximum is its minimum, and
\* no NaN is in the feature matrix
C17_NormalizedInUnitRange ==
    op = "build" =>
        /\ \A f \in Normalized \cap DOMAIN df.columns : \A i \in row_positions(df) :
              LET x == df.columns[NormOf(f)][i]
              IN  /\ ~x.nan
                  /\ 0 <= x.val /\ x.val <= Unit
                  /\ column_max(df.columns[f]) = column_min(df.columns[f]) => x.val = 0
        /\ feature_matrix # << >> =>
              \A i \in row_positions(df) : \A j \in DOMAIN feature_matrix[i] :
                  ~feature_matrix[i][j].nan

\* -------------------------------------------------------------------- frame
\* C18: no step of a query (get_playlist_mood_vector, adjust, recommend,
\* get_track_info, alone or chained) changes the engine's dataframe, feature
\* matrix, scaler or standardized matrix, and after adjust the caller's
\* base_vector and adjustments hold what was passed
C18_QueriesLeaveEngineAndArguments ==
    [][ /\ df' = df
        /\ feature_matrix' = feature_matrix
        /\ scaler' = scaler
        /\ feature_matrix_scaled' = feature_matrix_scaled
        /\ adjusted' # << >> => arguments_after' = << base_vector', adjustments' >>
      ]_vars

\* a query whose adjust has returned a vector that differs from the base
\* vector it was given
C18_Witness ==
    /\ op = "query"
    /\ adjusted # << >>
    /\ adjusted # base_vector
    /\ arguments_after = << base_vector, adjustments >>
    /\ feature_matrix_scaled \in Catalogs

Energetic == << "e", "n", "e", "r", "g", "e", "t", "i", "c" >>

\* the query of scenario A: the catalog of an all-zero, an all-positive and an
\* all-negative row, playlist [0], text "energetic"
ScenarioA ==
    /\ op = "query"
    /\ feature_matrix_scaled = CatalogA
    /\ track_indices = << 0 >>
    /\ user_message = Energetic

\* positions of the returned list that hold the item
PlacesOf(item) == { k \in DOMAIN recommendations : recommendations[k][1] = item }

\* C23: in scenario A the query ranks item 1 above item 2: item 1 is returned,
\* item 2 comes after it or not at all
C23_ScenarioARanksPositiveFirst ==
    ScenarioA =>
        /\ ~index_error
        /\ ~raised
        /\ PlacesOf(1) # {}
        /\ \A j \in PlacesOf(1), k \in PlacesOf(2) : j < k

\* scenario A has run: the base vector is item 0's row, the text has raised
\* energy, and item 1 is returned
C23_Witness ==
    /\ ScenarioA
    /\ base_vector = CatalogA[0]
    /\ adjusted[index("energy")] > 0
    /\ PlacesOf(1) # {}

\* ------------------------------------------------------- zero mood vector
\* C30: with the zero vector as mood vector (an empty playlist and a text
\* without keyword give it) recommend_by_mood_vector returns the empty list,
\* for every n and every exclude list
C30_ZeroMoodVectorReturnsEmpty ==
    (op \in { "recommend", "query" } /\ mood_vector = ZeroVector) =>
        /\ ~raised
        /\ recommendations = << >>

\* ------------------------------------------------- frame of the propagation
\* the trigger has a nonzero delta and its rule-set for that sign lists the
\* dependent as flexible
FlexibleRule(a, trigger, dependent) ==
    /\ trigger \in Keys(a) \cap Triggers
    /\ Get(a, trigger) # 0
    /\ << dependent, "flexible" >> \in
          Range(IF Get(a, trigger) > 0
                THEN feature_constraints[trigger].positive
                ELSE feature_constraints[trigger].negative)

\* features no rule-set lists
NeverDependent == { "danceability", "liveness", "loudness", "speechiness" }

\* C29: the propagation pass changes a feature only if a trigger with a
\* nonzero delta lists it, in the rule-set of the delta's sign, with mode soft,
\* increase or decrease; a flexible dependent and every feature that no active
\* trigger lists (danceability, liveness, loudness, speechiness always) keeps
\* its value from the primary pass
C29_PropagationChangesOnlyActiveDependents ==
    op = "adjust" =>
        /\ \A f \in FeatureNames :
              RulesOn(adjustments, f) = {} =>
                  adjusted[index(f)] = PrimaryValue(base_vector, adjustments, f)
        /\ \A f \in NeverDependent :
              /\ RulesOn(adjustments, f) = {}
              /\ adjusted[index(f)] = PrimaryValue(base_vector, adjustments, f)

\* an active trigger lists one dependent as flexible and another with a mode
\* that changes it: the flexible one, nonzero and not named by the caller, is
\* left alone, the other is changed
C29_Witness ==
    /\ op = "adjust"
    /\ \E t \in Triggers, f, g \in FeatureNames :
          /\ FlexibleRule(adjustments, t, f)
          /\ RulesOn(adjustments, f) = {}
          /\ f \notin Keys(adjustments)
          /\ base_vector[index(f)] # 0
          /\ adjusted[index(f)] = base_vector[index(f)]
          /\ RulesOn(adjustments, g) # {}
          /\ adjusted[index(g)] # PrimaryValue(base_vector, adjustments, g)

\* --------------------------------------------------------------- LLM client
\* the generated text holds no JSON object: no braces in order, or json.loads
\* raises on what stands between the first "{" and the last "}"
Unparsable(output_text) ==
    LET json_start == find_open(output_text)
        json_end   == rfind_close(output_text) + 1
    IN  \/ json_start < 0
        \/ json_end <= json_start
        \/ json_loads(slice(output_text, json_start, json_end)).raised

\* the parsed JSON has no feature_adjustments member that is an object
NoFeatureAdjustmentsObject(output_text) ==
    /\ ~Unparsable(output_text)
    /\ get_feature_adjustments(
           json_loads(slice(output_text, find_open(output_text),
                            rfind_close(output_text) + 1)).members) \notin
         { member_value("fa_full"), member_value("fa_partial") }

RemoteFailure ==
    \/ api_key = ""
    \/ response.kind \in { "exception", "status_503", "body_not_json", "no_generated_text" }
    \/ response.kind = "generated_text" /\ Unparsable(response.output_text)
    \/ response.kind = "generated_text" /\ NoFeatureAdjustmentsObject(response.output_text)

\* C20: extract_adjustments raises nothing, and on every remote failure (no
\* key, request exception, status other than 200, no generated text,
\* unparsable JSON, JSON without a feature_adjustments object) it returns the
\* local fallback map, which has the 9 feature names with numeric values
C20_FallbackOnEveryRemoteFailure ==
    (op = "llm" /\ RemoteFailure) =>
        /\ llm_adjustments.kind = "object"
        /\ llm_adjustments.dict = _fallback_extraction(user_message)
        /\ Keys(llm_adjustments.dict) = FeatureNames
        /\ Len(llm_adjustments.dict) = 9

\* rules of the fallback table whose keyword occurs in the lower-cased text
FallbackMatching(text) ==
    LET low == LowerCased(text)
    IN  { k \in DOMAIN fallback_rules : Occurs(fallback_rules[k].keyword, low) }

\* the delta rule k gives the feature, 0 when it gives none
FallbackDelta(k, feature) ==
    LET values == fallback_rules[k].values
        hits   == { j \in DOMAIN values : values[j][1] = feature }
    IN  IF hits = {} THEN 0 ELSE values[CHOOSE j \in hits : TRUE][2]

\* the sum of the feature's deltas over a set of rules
RECURSIVE FallbackSum(_, _)
FallbackSum(rules, feature) ==
    IF rules = {} THEN 0
    ELSE LET k == CHOOSE k \in rules : TRUE
         IN  FallbackDelta(k, feature) + FallbackSum(rules \ { k }, feature)

\* clip(x, -1, 1)
ClipToOne(x) == IF x > Unit THEN Unit ELSE IF x < 0 - Unit THEN 0 - Unit ELSE x

\* C24: the fallback extraction sums: each of the 9 features gets
\* clip(sum of its deltas over all keywords that occur as substrings of the
\* lower-cased text, -1, 1), so every value is in [-1, 1] and a text without
\* keyword gives the all-zero map
C24_FallbackSumsAndClips ==
    (op = "llm" /\ api_key = "") =>
        /\ llm_adjustments.kind = "object"
        /\ Keys(llm_adjustments.dict) = FeatureNames
        /\ Len(llm_adjustments.dict) = 9
        /\ LET matching == FallbackMatching(user_message)
           IN  \A f \in FeatureNames :
                  LET value == Get(llm_adjustments.dict, f)
                  IN  /\ value = ClipToOne(FallbackSum(matching, f))
                      /\ value >= 0 - Unit
                      /\ value <= Unit
                      /\ matching = {} => value = 0

\* two keywords occur and their deltas of one feature sum to more than 1: the
\* value returned is 1
C24_Witness ==
    /\ op = "llm"
    /\ api_key = ""
    /\ LET matching == FallbackMatching(user_message)
       IN  /\ Cardinality(matching) >= 2
           /\ \E f \in FeatureNames :
                 /\ FallbackSum(matching, f) > Unit
                 /\ Get(llm_adjustments.dict, f) = Unit

\* ------------------------------------------------------------- concurrency
\* the versions of the globals a chat has read so far
ObservedVersions ==
    { observed.recsys_at_460, observed.current_playlist, observed.excluded_tracks,
      observed.recsys_at_464 } \ { 0 - 1 }

\* C19: a chat that runs while train_model reloads reads the catalog at both
\* of its uses, the playlist and the exclusion set as one training left them:
\* all from the prior one or all from the new one
C19_ChatSeesOneTraining == Cardinality(ObservedVersions) <= 1

-----------------------------------------------------------------------------
(* train_model answered with an error *)

\* C27: a train-model request that ends with an error response (400 or 500)
\* has changed none of the engine, the extractor, the current playlist, the
\* exclusion set and the model_trained flag.
C27_FailedTrainingChangesNothing ==
    (train_pc = "done" /\ train_status >= 400) => ~train_changed

-----------------------------------------------------------------------------
(* chat before a training has succeeded *)

\* C28: a chat answers with recommendations only after some train-model
\* request was answered with success; a chat that starts while no engine is
\* loaded, while model_trained is false or with an empty message is rejected,
\* and its rejection changes neither the playlist nor the exclusion set.
C28_ChatOnlyAfterSuccessfulTraining ==
    [][ /\ ( /\ chat_pc' = "done"
             /\ chat_status' = 200
             /\ formatted_recommendations' # << >> )
           => requests.answered_200 > 0
        /\ ( /\ chat_pc = "idle"
             /\ chat_pc' # "idle"
             /\ df = << >> \/ ~model_trained \/ user_message' = << >> )
           => /\ chat_pc' = "done"
              /\ chat_status' = 400
              /\ current_playlist' = current_playlist
              /\ excluded_tracks' = excluded_tracks ]_vars

-----------------------------------------------------------------------------
(* the playlist and the exclusion set of the Flask session *)

PlaylistSet == { current_playlist[k] : k \in DOMAIN current_playlist }

\* C21: when a chat ranks, the exclusion list it passes to the ranker holds
\* every index of the current playlist, and no track it is given back is in
\* the current playlist.
C21_ChatExcludesThePlaylist ==
    [][ (chat_pc = "463" /\ chat_pc' = "471")
           => /\ PlaylistSet \subseteq
                    { exclude_indices'[k] : k \in DOMAIN exclude_indices' }
              /\ \A k \in DOMAIN recommendations' :
                    recommendations'[k][1] \notin PlaylistSet ]_vars

\* C26: every index of the current playlist is a position of the loaded
\* catalog, and no chat has failed with an IndexError on the playlist.
C26_PlaylistIndicesAreCatalogPositions ==
    /\ \A k \in DOMAIN current_playlist :
          /\ 0 <= current_playlist[k]
          /\ current_playlist[k] < df.len
    /\ ~index_error

\* C25: since the last reset, clear_playlist or train_model no track has been
\* returned by two chats, and a step that is none of these three never takes
\* a track out of excluded_tracks.
C25_NoTrackRecommendedTwice ==
    [][ /\ recommended'.twice = {}
        /\ (ClearPlaylist \/ Reset \/ TrainModelExcluded)
              \/ excluded_tracks \subseteq excluded_tracks' ]_vars

====
